---- MODULE Spec2Model ----
(***************************************************************************)
(* A model of the ftp-go session engine: the control loop of a session     *)
(* (Session.Serve / Session.receiveLine), the session's helpers            *)
(* (Close, buildPath, sendOutofbandData, sendOutofBandDataWriter,          *)
(* upgradeToTLS) and the server's accept loop (Server.Serve /              *)
(* Server.Shutdown).                                                       *)
(*                                                                         *)
(* Strings the code computes on character by character (paths, the         *)
(* passive port range, IP addresses, command lines, the FEAT text, file    *)
(* contents) are                                                           *)
(* sequences of one-character strings; strings the code only compares      *)
(* (tokens, user names, replies) are TLA+ strings.                         *)
(***************************************************************************)
EXTENDS Integers, Sequences, FiniteSets, TLC

VARIABLES
    opts,       \* the Options the embedder hands to NewServer
    server,     \* the Server NewServer built (its *Options)
    sess,       \* the Session (fields of the struct, plus what its sockets saw)
    pc,         \* position of the session task in Session.Serve
    line,       \* the line the session task is processing
    pIn,        \* buildPath call: the client-supplied filename
    pOut,       \* buildPath call: the result, <<"?">> before the call
    srv,        \* Server fields written by Serve and read by Shutdown
    lis,        \* the net.Listener handed to Server.Serve
    servePc,    \* position of the goroutine running Server.Serve
    serveErr,   \* the error Server.Serve returned
    shut,       \* the goroutine calling Server.Shutdown: position, calls made
    conns,      \* the sessions Server.Serve has started, in accept order
    localIP,    \* sess.Conn.LocalAddr().(*net.TCPAddr).IP.String()
    portOut,    \* PassivePort call: the outcome
    ipOut,      \* passiveListenIP call: the result, <<"?">> before the call
    feats,      \* server.feats, the text NewServer built
    featOut,    \* what writeMessageMultiline(211, server.feats) wrote
    rawLine,    \* parseLine call: the line as read from the control connection
    parsed,     \* parseLine call: command, parameter and the token looked up
    files,      \* the file system of the memory driver
    drvOut,     \* the memory driver's last call and what it returned
    upl,        \* the PutFile calls in progress (waiting in io.Copy)
    mu,         \* server.CommandsMu, the RWMutex of the command registry
    gor,        \* the goroutines using CommandsMu: sessions and a writer
    race        \* a session whose Close is called from another goroutine

sessVars == <<opts, server, sess, pc, line>>
pathVars == <<pIn, pOut>>
srvVars  == <<srv, lis, servePc, serveErr, shut, conns>>
pasvVars == <<localIP, portOut, ipOut>>
featVars == <<feats, featOut>>
lineVars == <<rawLine, parsed>>
drvVars  == <<files, drvOut, upl>>
concVars == <<mu, gor, race>>
vars     == <<opts, server, sess, pc, line, pIn, pOut,
              srv, lis, servePc, serveErr, shut, conns,
              localIP, portOut, ipOut,
              feats, featOut, rawLine, parsed, files, drvOut, upl,
              mu, gor, race>>

(***************************************************************************)
(* Bounds of the model.                                                    *)
(***************************************************************************)
\* longest client-supplied path enumerated character by character
MaxLen == 4
\* connections the listener hands to Server.Serve
MaxConns == 2
\* calls of Server.Shutdown
MaxShutdowns == 2
\* largest port number written in a PassivePorts range
MaxPort == 12
\* longest address enumerated character by character
MaxIPLen == 4
\* longest line enumerated character by character
MaxRaw == 5
\* longest data handed to one PutFile of the memory driver
MaxData == 1
\* most handler replacements the registry writer makes
MaxSwaps == 1
\* PutFile calls made on the memory driver
MaxPuts == 2
\* largest offset handed to GetFile and PutFile
MaxOffset == 2

Nil == "nil"

(***************************************************************************)
(* Paths: filepath.Clean (Unix) and Session.buildPath.                     *)
(***************************************************************************)
Separator == "/"

IsPathSeparator(c) == c = Separator

\* the ".." case of Clean: out.w--, then back to the previous separator
RECURSIVE Backtrack(_, _, _)
Backtrack(out, w, dotdot) ==
    IF w > dotdot /\ ~IsPathSeparator(out[w + 1])
    THEN Backtrack(out, w - 1, dotdot)
    ELSE SubSeq(out, 1, w)

\* index (1-based) of the first separator of path at or after r, Len+1 if none
RECURSIVE ElementEnd(_, _)
ElementEnd(path, r) ==
    IF r <= Len(path) /\ ~IsPathSeparator(path[r])
    THEN ElementEnd(path, r + 1)
    ELSE r

\* the loop of Clean; r is 1-based, out is the lazybuf's content (w = Len(out))
RECURSIVE CleanLoop(_, _, _, _, _)
CleanLoop(path, r, out, dotdot, rooted) ==
    LET n == Len(path) IN
    IF r > n THEN out
    ELSE IF IsPathSeparator(path[r])
    THEN CleanLoop(path, r + 1, out, dotdot, rooted)
    ELSE IF path[r] = "." /\ (r = n \/ IsPathSeparator(path[r + 1]))
    THEN CleanLoop(path, r + 1, out, dotdot, rooted)
    ELSE IF path[r] = "." /\ path[r + 1] = "."
            /\ (r + 1 = n \/ IsPathSeparator(path[r + 2]))
    THEN IF Len(out) > dotdot
         THEN CleanLoop(path, r + 2, Backtrack(out, Len(out) - 1, dotdot),
                        dotdot, rooted)
         ELSE IF ~rooted
         THEN LET o1 == IF Len(out) > 0 THEN Append(out, Separator) ELSE out
                  o2 == o1 \o <<".", ".">>
              IN  CleanLoop(path, r + 2, o2, Len(o2), rooted)
         ELSE CleanLoop(path, r + 2, out, dotdot, rooted)
    ELSE LET o1 == IF (rooted /\ Len(out) # 1) \/ (~rooted /\ Len(out) # 0)
                   THEN Append(out, Separator) ELSE out
             e  == ElementEnd(path, r)
         IN  CleanLoop(path, e, o1 \o SubSeq(path, r, e - 1), dotdot, rooted)

Clean(path) ==
    IF path = <<>> THEN <<".">>
    ELSE LET rooted == IsPathSeparator(path[1])
             out == IF rooted
                    THEN CleanLoop(path, 2, <<Separator>>, 1, TRUE)
                    ELSE CleanLoop(path, 1, <<>>, 0, FALSE)
         IN  IF out = <<>> THEN <<".">> ELSE out

\* strings.Replace(s, "//", "/", -1): non-overlapping, left to right
RECURSIVE ReplaceDoubleSlash(_)
ReplaceDoubleSlash(s) ==
    IF Len(s) < 2 THEN s
    ELSE IF s[1] = "/" /\ s[2] = "/"
    THEN <<"/">> \o ReplaceDoubleSlash(SubSeq(s, 3, Len(s)))
    ELSE <<s[1]>> \o ReplaceDoubleSlash(Tail(s))

\* strings.Replace(s, string(filepath.Separator), "/", -1)
ReplaceSeparator(s) == [i \in 1..Len(s) |-> IF s[i] = Separator THEN "/" ELSE s[i]]

buildPathMutCwdFirst(curDir, filename) ==
    ReplaceSeparator(ReplaceDoubleSlash(
        IF Len(filename) > 0 /\ filename # <<"-", "a">>
        THEN Clean(curDir \o <<"/">> \o filename)
        ELSE Clean(curDir)))

buildPathMutNoClean(curDir, filename) ==
    ReplaceSeparator(ReplaceDoubleSlash(
        IF Len(filename) > 0 /\ filename[1] = "/"
        THEN filename
        ELSE IF Len(filename) > 0 /\ filename # <<"-", "a">>
        THEN curDir \o <<"/">> \o filename
        ELSE curDir))

buildPath(curDir, filename) ==
    ReplaceSeparator(ReplaceDoubleSlash(
        IF Len(filename) > 0 /\ filename[1] = "/"
        THEN Clean(filename)
        ELSE IF Len(filename) > 0 /\ filename # <<"-", "a">>
        THEN Clean(curDir \o <<"/">> \o filename)
        ELSE Clean(curDir)))

(***************************************************************************)
(* Options and NewServer.                                                  *)
(***************************************************************************)
\* the registry of a server built without Options.Commands: the commands of
\* this model, with what their handlers declare
defaultCommands ==
    [USER |-> [handler |-> "commandUser", RequireParam |-> TRUE,
               RequireAuth |-> FALSE, IsExtend |-> FALSE],
     PASS |-> [handler |-> "commandPass", RequireParam |-> TRUE,
               RequireAuth |-> FALSE, IsExtend |-> FALSE],
     QUIT |-> [handler |-> "commandQuit", RequireParam |-> FALSE,
               RequireAuth |-> FALSE, IsExtend |-> FALSE],
     AUTH |-> [handler |-> "commandAuth", RequireParam |-> TRUE,
               RequireAuth |-> FALSE, IsExtend |-> TRUE],
     PASV |-> [handler |-> "commandPasv", RequireParam |-> FALSE,
               RequireAuth |-> TRUE, IsExtend |-> FALSE],
     LIST |-> [handler |-> "commandList", RequireParam |-> FALSE,
               RequireAuth |-> TRUE, IsExtend |-> FALSE],
     RETR |-> [handler |-> "commandRetr", RequireParam |-> TRUE,
               RequireAuth |-> TRUE, IsExtend |-> FALSE],
     CWD  |-> [handler |-> "commandCwd", RequireParam |-> TRUE,
               RequireAuth |-> TRUE, IsExtend |-> FALSE]]

\* a nil Options.Commands
NilCommands == [nil |-> TRUE]

\* the zero value of Options, with a Perm set
ZeroOptions ==
    [Hostname |-> "", Port |-> 0, Name |-> "", WelcomeMessage |-> "",
     Timeout |-> 0, Perm |-> "perm", TLS |-> FALSE, ExplicitFTPS |-> FALSE,
     ForceTLS |-> FALSE, PublicIP |-> <<>>, PassivePorts |-> <<>>, RateLimit |-> 0,
     Commands |-> NilCommands]

\* newOpts starts as the zero Options; ForceTLS is not among the fields copied
optsWithDefaults(o) ==
    [Hostname |-> IF o.Hostname = "" THEN "::" ELSE o.Hostname,
     Port |-> IF o.Port = 0 THEN 2121 ELSE o.Port,
     Name |-> IF o.Name = "" THEN "Go FTP Server" ELSE o.Name,
     WelcomeMessage |-> IF o.WelcomeMessage = ""
                        THEN "Welcome to the Go FTP Server"
                        ELSE o.WelcomeMessage,
     Timeout |-> IF o.Timeout <= 0 THEN 60 ELSE o.Timeout,
     Perm |-> o.Perm, TLS |-> o.TLS, ExplicitFTPS |-> o.ExplicitFTPS,
     ForceTLS |-> FALSE,
     PublicIP |-> o.PublicIP, PassivePorts |-> o.PassivePorts,
     RateLimit |-> o.RateLimit,
     Commands |-> IF o.Commands = NilCommands THEN defaultCommands ELSE o.Commands]

LF == "\n"

\* the order in which `range s.Commands` meets the commands that are
\* extensions: any order of those keys
ExtendKeys(cmds) == {k \in DOMAIN cmds : cmds[k].IsExtend}

RangeOrders(keys) ==
    {o \in [1..Cardinality(keys) -> keys] :
        \A i, j \in 1..Cardinality(keys) : i # j => o[i] # o[j]}

\* featCmds = featCmds + " " + k + "\n" for the keys in the order met
RECURSIVE featLines(_)
featLines(order) ==
    IF order = <<>> THEN <<>>
    ELSE <<" ", Head(order), LF>> \o featLines(Tail(order))

buildFeatsMutAlwaysTLS(n, order) ==
    <<"Extensions supported:", LF>>
        \o <<" UTF8", LF>>
        \o featLines(order)
        \o <<" AUTH TLS", LF, " PBSZ", LF, " PROT", LF>>

\* NewServer: s.feats, as the sequence of the strings concatenated
buildFeats(n, order) ==
    <<"Extensions supported:", LF>>
        \o <<" UTF8", LF>>
        \o featLines(order)
        \o (IF n.TLS THEN <<" AUTH TLS", LF, " PBSZ", LF, " PROT", LF>> ELSE <<>>)

\* NewServer: the server's Options, or the error for a nil Perm
NewServer(o) ==
    LET n == optsWithDefaults(o) IN
    IF n.Perm = Nil
    THEN [err |-> "No perm implementation", Options |-> Nil]
    ELSE [err |-> Nil, Options |-> n]

(***************************************************************************)
(* The command registry (Options.Commands) and the Auth plug-in.           *)
(***************************************************************************)
\* sess.server.Commands of the sessions of Spec (no Options.Commands given)
Commands == defaultCommands

\* strings.ToUpper on the tokens clients send in this model
ToUpper(t) ==
    CASE t = "user" -> "USER"
      [] t = "xxxx" -> "XXXX"
      [] OTHER -> t

\* the lines clients send, after parseLine: command word and parameter
Lines ==
    {[cmd |-> c, param |-> p] : c \in {"USER"}, p \in {"", "admin"}}
    \cup {[cmd |-> "user", param |-> "admin"]}
    \cup {[cmd |-> c, param |-> p] : c \in {"PASS"}, p \in {"", "admin", "wrong"}}
    \cup {[cmd |-> "QUIT", param |-> ""]}
    \cup {[cmd |-> c, param |-> p] : c \in {"AUTH"}, p \in {"", "TLS"}}
    \cup {[cmd |-> "PASV", param |-> ""]}
    \cup {[cmd |-> c, param |-> p] : c \in {"LIST"}, p \in {"", "-a"}}
    \cup {[cmd |-> c, param |-> p] : c \in {"RETR"}, p \in {"", "/a"}}
    \cup {[cmd |-> c, param |-> p] : c \in {"CWD"}, p \in {"", "/a", ".."}}
    \cup {[cmd |-> c, param |-> p] : c \in {"XXXX", "xxxx"}, p \in {""}}

NoLine == [cmd |-> "", param |-> ""]

\* the characters of the parameters that are paths
ParamChars(p) ==
    CASE p = "/a" -> <<"/", "a">>
      [] p = ".." -> <<".", ".">>
      [] p = "-a" -> <<"-", "a">>
      [] OTHER -> <<>>

\* the SimpleAuth the tests configure
AuthName == "admin"
AuthPassword == "admin"

constantTimeEquals(a, b) == a = b

CheckPasswdMutNameOnly(name, pass) ==
    [ok |-> constantTimeEquals(name, AuthName), err |-> Nil]

\* SimpleAuth.CheckPasswd: the pair (bool, error) returned
CheckPasswd(name, pass) ==
    [ok  |-> constantTimeEquals(name, AuthName) /\ constantTimeEquals(pass, AuthPassword),
     err |-> Nil]

(***************************************************************************)
(* The Session.  Besides the fields of the struct the record keeps what    *)
(* the session's sockets and the current line saw:                         *)
(*   connCloses  Close() calls made on the control connection              *)
(*   sockCloses  Close() calls made on the data socket negotiated last     *)
(*   out         replies written while the current line is processed       *)
(*   executed    the current line's handler was invoked                    *)
(*   panicked    the current line's handler panicked                       *)
(*   xfer        the transfer function that returned for the current line  *)
(*   xferHeld    that function found a data connection in the slot         *)
(*   writeFailed the write to the data socket failed in that transfer      *)
(*   hooks       notifier hooks delivered while the current line is        *)
(*               processed, in the order of the calls                      *)
(*   notifyPanicked  BeforeCommand panicked for the current line           *)
(***************************************************************************)
newSession ==
    [dataConn |-> Nil, Conn |-> "tcp", controlReader |-> "tcp",
     controlWriter |-> "tcp", curDir |-> <<"/">>, reqUser |-> "", user |-> "",
     preCommand |-> "", closed |-> FALSE, tls |-> FALSE,
     connCloses |-> 0, sockCloses |-> 0, out |-> <<>>,
     executed |-> FALSE, panicked |-> FALSE,
     xfer |-> "none", xferHeld |-> FALSE, writeFailed |-> FALSE,
     hooks |-> <<>>, notifyPanicked |-> FALSE]

writeMessage(s, msg) == [s EXCEPT !.out = Append(@, msg)]

CRLF == "\r\n"

\* writeMessageMultiline(code, message): the line written,
\* fmt.Sprintf("%d-%s\r\n%d END\r\n", code, message, code), as the sequence
\* of the strings concatenated
writeMessageMultiline(code, message) ==
    <<code, "-">> \o message \o <<CRLF, code, " END", CRLF>>

\* one call of a hook of the notifier list
notify(s, name, cmd, param) ==
    [s EXCEPT !.hooks = Append(@, [name |-> name, cmd |-> cmd, param |-> param])]

CloseMutKeepDataConn(s) ==
    [s EXCEPT !.connCloses = @ + 1, !.closed = TRUE, !.reqUser = "", !.user = ""]

Close(s) ==
    LET s1 == [s EXCEPT !.connCloses = @ + 1, !.closed = TRUE,
                        !.reqUser = "", !.user = ""]
    IN  IF s1.dataConn # Nil
        THEN [s1 EXCEPT !.sockCloses = @ + 1, !.dataConn = Nil]
        ELSE s1

\* as upgradeToTLS, but the tls flag is set before the handshake
upgradeToTLSMutFlagFirst(s, handshakeOk) ==
    IF ~handshakeOk
    THEN [err |-> "handshake", s |-> [s EXCEPT !.tls = TRUE]]
    ELSE [err |-> Nil,
          s |-> [s EXCEPT !.Conn = "tls", !.controlReader = "tls",
                          !.controlWriter = "tls", !.tls = TRUE]]

\* upgradeToTLS: the error of a failed handshake, else the session on TLS
upgradeToTLS(s, handshakeOk) ==
    IF ~handshakeOk
    THEN [err |-> "handshake", s |-> s]
    ELSE [err |-> Nil,
          s |-> [s EXCEPT !.Conn = "tls", !.controlReader = "tls",
                          !.controlWriter = "tls", !.tls = TRUE]]

\* sendOutofbandData: the result of Write is dropped, 226 is always written
sendOutofbandData(s, writeOk) ==
    LET s1 == [s EXCEPT !.xfer = "sendOutofbandData",
                        !.xferHeld = s.dataConn # Nil,
                        !.writeFailed = s.dataConn # Nil /\ ~writeOk]
        s2 == IF s1.dataConn # Nil
              THEN [s1 EXCEPT !.sockCloses = @ + 1, !.dataConn = Nil]
              ELSE s1
    IN  writeMessage(s2, "226 Closing data connection")

sendOutofBandDataWriterMutCloseTwice(s, copyOk, empty) ==
    IF s.dataConn = Nil
    THEN [err |-> "panic",
          s |-> IF empty /\ copyOk
                THEN [writeMessage(s, "226 Closing data connection")
                         EXCEPT !.panicked = TRUE]
                ELSE [s EXCEPT !.panicked = TRUE]]
    ELSE LET s1 == [s EXCEPT !.xfer = "sendOutofBandDataWriter",
                             !.xferHeld = TRUE, !.writeFailed = ~copyOk]
         IN  IF ~copyOk
             THEN [err |-> "copy",
                   s |-> [s1 EXCEPT !.sockCloses = @ + 2, !.dataConn = Nil]]
             ELSE [err |-> Nil,
                   s |-> [writeMessage(s1, "226 Closing data connection")
                            EXCEPT !.sockCloses = @ + 1, !.dataConn = Nil]]

\* sendOutofBandDataWriter.  With a nil dataConn: io.Copy panics in the first
\* Write when the data has bytes; with empty data it calls no Write and
\* returns (0, nil), 226 is written and sess.dataConn.Close() panics; when the
\* first Read fails, the Close of the error branch panics.
sendOutofBandDataWriter(s, copyOk, empty) ==
    IF s.dataConn = Nil
    THEN [err |-> "panic",
          s |-> IF empty /\ copyOk
                THEN [writeMessage(s, "226 Closing data connection")
                         EXCEPT !.panicked = TRUE]
                ELSE [s EXCEPT !.panicked = TRUE]]
    ELSE LET s1 == [s EXCEPT !.xfer = "sendOutofBandDataWriter",
                             !.xferHeld = TRUE, !.writeFailed = ~copyOk]
         IN  IF ~copyOk
             THEN [err |-> "copy",
                   s |-> [s1 EXCEPT !.sockCloses = @ + 1, !.dataConn = Nil]]
             ELSE [err |-> Nil,
                   s |-> [writeMessage(s1, "226 Closing data connection")
                            EXCEPT !.sockCloses = @ + 1, !.dataConn = Nil]]

changeCurDir(s, path) == [s EXCEPT !.curDir = path]

(***************************************************************************)
(* The command handlers.  ch is what the handler's surroundings do:        *)
(*   ch.panic  a plug-in (driver, auth) called by the handler panics       *)
(*   ch.ok     the plug-in call, negotiation or TLS handshake succeeds     *)
(*   ch.wok    the write to the data socket succeeds                       *)
(*   ch.empty  the data to transfer is empty                               *)
(***************************************************************************)
Choices == [panic : BOOLEAN, ok : BOOLEAN, wok : BOOLEAN, empty : BOOLEAN]

commandUser(s, param) ==
    writeMessage([s EXCEPT !.reqUser = param], "331 User name ok, password required")

commandPass(s, param, ch) ==
    IF ch.panic THEN [s EXCEPT !.panicked = TRUE]
    ELSE LET s1 == notify(s, "BeforeLoginUser", "PASS", param)
         IN  IF CheckPasswd(s.reqUser, param).ok
             THEN writeMessage(
                      [notify(s1, "AfterUserLogin", "PASS", param)
                          EXCEPT !.user = s.reqUser],
                      "230 Password ok, continue")
             ELSE writeMessage(notify(s1, "AfterUserLogin", "PASS", param),
                               "530 Incorrect password, not logged in")

commandQuit(s) == Close(writeMessage(s, "221 Goodbye"))

commandAuth(s, param, ch) ==
    IF param \in {"TLS", "SSL"}
    THEN LET r == upgradeToTLS(writeMessage(s, "234 AUTH command OK"), ch.ok)
         IN  IF r.err # Nil THEN Close(r.s) ELSE r.s
    ELSE writeMessage(s, "504 AUTH type not supported")

commandPasv(s, ch) ==
    IF ~ch.ok THEN writeMessage(s, "425 Can't open data connection")
    ELSE writeMessage([s EXCEPT !.dataConn = "open", !.sockCloses = 0],
                      "227 Entering Passive Mode")

commandList(s, param, ch) ==
    IF ch.panic THEN [s EXCEPT !.panicked = TRUE]
    ELSE IF s.dataConn = Nil
    THEN writeMessage(s, "425 Can't open data connection")
    ELSE sendOutofbandData(writeMessage(s, "150 Opening data connection"), ch.wok)

commandRetr(s, param, ch) ==
    IF ch.panic THEN [s EXCEPT !.panicked = TRUE]
    ELSE IF ~ch.ok THEN writeMessage(s, "550 File not available")
    ELSE IF s.dataConn = Nil
    THEN writeMessage(s, "425 Can't open data connection")
    ELSE LET r == sendOutofBandDataWriter(
                      writeMessage(s, "150 Data transfer starting"), ch.wok, ch.empty)
         IN  IF r.err = "panic" THEN r.s
             ELSE IF r.err # Nil
             THEN writeMessage(r.s, "426 Connection closed; transfer aborted")
             ELSE r.s

commandCwd(s, param, ch) ==
    IF ch.panic THEN [s EXCEPT !.panicked = TRUE]
    ELSE LET s1 == notify(s, "BeforeChangeCurDir", "CWD", param)
         IN  IF ~ch.ok
             THEN writeMessage(notify(s1, "AfterCurDirChanged", "CWD", param),
                               "550 Directory change failed")
             ELSE writeMessage(
                      changeCurDir(notify(s1, "AfterCurDirChanged", "CWD", param),
                                   buildPath(s.curDir, ParamChars(param))),
                      "250 Directory changed")

Execute(cmdObj, s, param, ch) ==
    CASE cmdObj.handler = "commandUser" -> commandUser(s, param)
      [] cmdObj.handler = "commandPass" -> commandPass(s, param, ch)
      [] cmdObj.handler = "commandQuit" -> commandQuit(s)
      [] cmdObj.handler = "commandAuth" -> commandAuth(s, param, ch)
      [] cmdObj.handler = "commandPasv" -> commandPasv(s, ch)
      [] cmdObj.handler = "commandList" -> commandList(s, param, ch)
      [] cmdObj.handler = "commandRetr" -> commandRetr(s, param, ch)
      [] cmdObj.handler = "commandCwd"  -> commandCwd(s, param, ch)

(***************************************************************************)
(* Session.receiveLine: the checks made on a parsed line, in the code's    *)
(* order, and the dispatch to the handler.                                 *)
(***************************************************************************)
\* cmdObj, ok := sess.server.Commands[cmdGiven]
commandFound(cmdGiven) == cmdGiven \in DOMAIN Commands

\* cmdObj.RequireParam() && param == ""
paramMissing(cmdObj, param) == cmdObj.RequireParam /\ param = ""

\* ForceTLS && !sess.tls && !(cmdObj == Commands["AUTH"] && param == "TLS")
tlsRequired(s, cmdObj, param) ==
    /\ server.Options.ForceTLS
    /\ ~s.tls
    /\ ~(cmdObj = Commands["AUTH"] /\ param = "TLS")

notLoggedInMutNever(s, cmdObj) == FALSE

\* cmdObj.RequireAuth() && sess.user == ""
notLoggedIn(s, cmdObj) == cmdObj.RequireAuth /\ s.user = ""

\* cmdObj.Execute(sess, param); sess.preCommand = cmdGiven
\* a panic of Execute is recovered by the deferred function, which only logs
dispatchMutCloseOnPanic(s, cmdGiven, cmdObj, param, ch) ==
    LET r == Execute(cmdObj, [s EXCEPT !.executed = TRUE], param, ch)
    IN  IF r.panicked THEN Close(r) ELSE [r EXCEPT !.preCommand = cmdGiven]

\* as dispatch, but the token is stored although the handler panicked
dispatchMutStoreOnPanic(s, cmdGiven, cmdObj, param, ch) ==
    LET r == Execute(cmdObj, [s EXCEPT !.executed = TRUE], param, ch)
    IN  [r EXCEPT !.preCommand = cmdGiven]

dispatch(s, cmdGiven, cmdObj, param, ch) ==
    LET r == Execute(cmdObj, [s EXCEPT !.executed = TRUE], param, ch)
    IN  IF r.panicked THEN r ELSE [r EXCEPT !.preCommand = cmdGiven]

\* as receiveLine, but an unknown token is recorded as the previous command
receiveLineMutRunUnknown(s, ln, ch) ==
    LET cmdGiven == ToUpper(ln.cmd)
        param == ln.param
    IN  IF ~commandFound(cmdGiven)
        THEN [writeMessage(s, "500 Command not found") EXCEPT !.preCommand = cmdGiven]
        ELSE LET cmdObj == Commands[cmdGiven] IN
             IF paramMissing(cmdObj, param)
             THEN writeMessage(s, "553 action aborted, required param missing")
             ELSE IF tlsRequired(s, cmdObj, param)
             THEN writeMessage(s,
                    "534 Request denied for policy reasons. AUTH TLS required.")
             ELSE IF notLoggedIn(s, cmdObj)
             THEN writeMessage(s, "530 not logged in")
             ELSE dispatch(s, cmdGiven, cmdObj, param, ch)

receiveLine(s, ln, ch) ==
    LET cmdGiven == ToUpper(ln.cmd)
        param == ln.param
    IN  IF ~commandFound(cmdGiven)
        THEN writeMessage(s, "500 Command not found")
        ELSE LET cmdObj == Commands[cmdGiven] IN
             IF paramMissing(cmdObj, param)
             THEN writeMessage(s, "553 action aborted, required param missing")
             ELSE IF tlsRequired(s, cmdObj, param)
             THEN writeMessage(s,
                    "534 Request denied for policy reasons. AUTH TLS required.")
             ELSE IF notLoggedIn(s, cmdObj)
             THEN writeMessage(s, "530 not logged in")
             ELSE dispatch(s, cmdGiven, cmdObj, param, ch)

(***************************************************************************)
(* Session.Serve: the steps of the session task.                           *)
(*   pc = "start"     Serve has been started by the accept loop            *)
(*   pc = "read"      blocked in controlReader.ReadString                  *)
(*   pc = "notify"    a line was read, BeforeCommand is about to run       *)
(*   pc = "dispatch"  receiveLine is about to run                          *)
(*   pc = "exit"      the loop was left (break, or a panic unwinding)      *)
(*   pc = "done"      Serve has returned, its deferred Close has run       *)
(***************************************************************************)
\* the fields that describe the line in progress, as a new line finds them
freshLine(s) ==
    [s EXCEPT !.out = <<>>, !.executed = FALSE, !.panicked = FALSE,
              !.xfer = "none", !.xferHeld = FALSE, !.writeFailed = FALSE,
              !.hooks = <<>>, !.notifyPanicked = FALSE]

BeforeCommandMutTwice(s, ln) ==
    notify(notify(s, "BeforeCommand", ln.cmd, ln.param),
           "BeforeCommand", ln.cmd, ln.param)

\* sess.server.notifiers.BeforeCommand(&Context{Sess: sess}, line)
BeforeCommand(s, ln) == notify(s, "BeforeCommand", ln.cmd, ln.param)

\* sess.writeMessage(220, sess.server.WelcomeMessage)
ServeStart ==
    /\ pc = "start"
    /\ sess' = writeMessage(sess, "220 Welcome to the Go FTP Server")
    /\ pc' = "read"
    /\ UNCHANGED <<opts, server, line, pathVars, srvVars, pasvVars, featVars, lineVars, drvVars, concVars>>

\* ReadString returns a line
ReadLine ==
    /\ pc = "read"
    /\ \E l \in Lines : line' = l
    /\ sess' = freshLine(sess)
    /\ pc' = "notify"
    /\ UNCHANGED <<opts, server, pathVars, srvVars, pasvVars, featVars, lineVars, drvVars, concVars>>

\* ReadString returns an error (EOF included): break
ReadError ==
    /\ pc = "read"
    /\ pc' = "exit"
    /\ UNCHANGED <<opts, server, sess, line, pathVars, srvVars, pasvVars, featVars, lineVars, drvVars, concVars>>

\* sess.server.notifiers.BeforeCommand(ctx, line) returns
NotifyReturns ==
    /\ pc = "notify"
    /\ sess' = BeforeCommand(sess, line)
    /\ pc' = "dispatch"
    /\ UNCHANGED <<opts, server, line, pathVars, srvVars, pasvVars, featVars, lineVars, drvVars, concVars>>

\* BeforeCommand panics: the panic unwinds Serve, whose deferred recover logs it
NotifyPanicsMutContinues ==
    /\ pc = "notify"
    /\ sess' = [BeforeCommand(sess, line) EXCEPT !.notifyPanicked = TRUE]
    /\ pc' = "dispatch"
    /\ UNCHANGED <<opts, server, line, pathVars, srvVars, pasvVars, featVars, lineVars, drvVars, concVars>>

NotifyPanics ==
    /\ pc = "notify"
    /\ sess' = [BeforeCommand(sess, line) EXCEPT !.notifyPanicked = TRUE]
    /\ pc' = "exit"
    /\ UNCHANGED <<opts, server, line, pathVars, srvVars, pasvVars, featVars, lineVars, drvVars, concVars>>

ReceiveLineMutNoClosedCheck ==
    /\ pc = "dispatch"
    /\ \E ch \in Choices : sess' = receiveLine(sess, line, ch)
    /\ pc' = "read"
    /\ UNCHANGED <<opts, server, line, pathVars, srvVars, pasvVars, featVars, lineVars, drvVars, concVars>>

\* sess.receiveLine(line); if sess.closed { break }
ReceiveLine ==
    /\ pc = "dispatch"
    /\ \E ch \in Choices : sess' = receiveLine(sess, line, ch)
    /\ pc' = IF sess'.closed THEN "exit" ELSE "read"
    /\ UNCHANGED <<opts, server, line, pathVars, srvVars, pasvVars, featVars, lineVars, drvVars, concVars>>

\* Serve returns: defer sess.Close()
ServeReturn ==
    /\ pc = "exit"
    /\ sess' = Close(sess)
    /\ pc' = "done"
    /\ UNCHANGED <<opts, server, line, pathVars, srvVars, pasvVars, featVars, lineVars, drvVars, concVars>>

(***************************************************************************)
(* Values of the variables a specification does not use.                   *)
(***************************************************************************)
NoCall == <<"?">>

SessIdle ==
    /\ opts = ZeroOptions
    /\ server = NewServer(ZeroOptions)
    /\ sess = newSession
    /\ pc = "idle"
    /\ line = NoLine

PathIdle == pIn = <<>> /\ pOut = NoCall

NoPort == [called |-> FALSE, panic |-> FALSE, port |-> 0]

PasvIdle == localIP = <<>> /\ portOut = NoPort /\ ipOut = NoCall

FeatIdle == feats = <<>> /\ featOut = <<>>

NoParse == [called |-> FALSE, command |-> <<>>, param |-> <<>>, cmdGiven |-> <<>>]

LineIdle == rawLine = <<>> /\ parsed = NoParse

NoFiles == <<>>

NoDriverCall == [op |-> "none"]

NoUploads == <<>>

DrvIdle == files = NoFiles /\ drvOut = NoDriverCall /\ upl = NoUploads

\* the zero value of sync.RWMutex
NoMutex == [readers |-> 0, writer |-> FALSE, pending |-> FALSE]

NoGoroutines == [s |-> <<>>, w |-> [pc |-> "idle", swaps |-> 0]]

NoRace == [taskPc |-> "idle"]

ConcIdle == mu = NoMutex /\ gor = NoGoroutines /\ race = NoRace

ExtIdle == FeatIdle /\ LineIdle /\ DrvIdle /\ ConcIdle

SrvIdle ==
    /\ srv = [listener |-> Nil, cancel |-> Nil, ctxDone |-> FALSE, sessionID |-> Nil,
              draws |-> 0]
    /\ lis = "open"
    /\ servePc = "idle"
    /\ serveErr = Nil
    /\ shut = [pc |-> "idle", calls |-> 0, afterServe |-> FALSE]
    /\ conns = <<>>

(***************************************************************************)
(* Spec: one session of a server built by NewServer.                       *)
(***************************************************************************)
Init ==
    /\ opts \in {[ZeroOptions EXCEPT !.ForceTLS = f] : f \in BOOLEAN}
    /\ server = NewServer(opts)
    /\ sess = newSession
    /\ pc = "start"
    /\ line = NoLine
    /\ PathIdle
    /\ SrvIdle
    /\ PasvIdle
    /\ ExtIdle

Next ==
    \/ ServeStart
    \/ ReadLine
    \/ ReadError
    \/ NotifyReturns
    \/ NotifyPanics
    \/ ReceiveLine
    \/ ServeReturn

Spec == Init /\ [][Next]_vars

(***************************************************************************)
(* Properties of the session (checked under Spec).                         *)
(***************************************************************************)
\* a step in which receiveLine processed the line
Received == pc = "dispatch" /\ pc' # "dispatch"

\* the registry token of the line being processed
Token == ToUpper(line.cmd)

Has(seq, x) == \E i \in 1..Len(seq) : seq[i] = x

\* the session fields a rejected line must leave alone
SameSession(s, t) ==
    /\ t.user = s.user
    /\ t.reqUser = s.reqUser
    /\ t.curDir = s.curDir
    /\ t.dataConn = s.dataConn
    /\ t.preCommand = s.preCommand
    /\ t.closed = s.closed
    /\ t.tls = s.tls

\* C1 as stated: a line that invokes a registered command requiring
\* authentication while no user is logged in is answered with exactly
\* "530 not logged in", and the handler is not executed.
C1_Original ==
    [][(Received /\ commandFound(Token) /\ Commands[Token].RequireAuth
           /\ sess.user = "")
        => (sess'.out = <<"530 not logged in">> /\ ~sess'.executed)]_vars

\* C1 (amended): a line that invokes a registered command requiring
\* authentication while no user is logged in never has its handler executed
\* and gets exactly one reply: 553 when the command requires a parameter and
\* the parameter is empty, else 534 when ForceTLS denies it on a cleartext
\* channel, else "530 not logged in".
C1_NotLoggedIn ==
    [][(Received /\ commandFound(Token) /\ Commands[Token].RequireAuth
           /\ sess.user = "")
        => /\ ~sess'.executed
           /\ SameSession(sess, sess')
           /\ sess'.out =
                IF Commands[Token].RequireParam /\ line.param = ""
                THEN <<"553 action aborted, required param missing">>
                ELSE IF server.Options.ForceTLS /\ ~sess.tls
                THEN <<"534 Request denied for policy reasons. AUTH TLS required.">>
                ELSE <<"530 not logged in">>]_vars

\* C1 witness: a command requiring authentication got 530 before any login.
C1_Witness ==
    /\ pc = "read"
    /\ commandFound(Token) /\ Commands[Token].RequireAuth
    /\ sess.user = ""
    /\ sess.out = <<"530 not logged in">>

\* C2: a line whose upper-cased token is not in the registry is answered with
\* exactly "500 Command not found", no handler runs, user, curDir, dataConn
\* and preCommand are unchanged, and the loop goes on to read the next line.
C2_UnknownCommand ==
    [][(Received /\ ~commandFound(Token))
        => /\ sess'.out = <<"500 Command not found">>
           /\ ~sess'.executed
           /\ SameSession(sess, sess')
           /\ pc' = "read"]_vars

\* C2 witness: an unknown token sent in lower case was answered with 500 by
\* a session that is logged in and holds a data connection.
C2_Witness ==
    /\ pc = "read"
    /\ line.cmd = "xxxx"
    /\ sess.out = <<"500 Command not found">>
    /\ sess.user = "admin"
    /\ sess.dataConn # Nil

\* C3: on a server built by NewServer from Options with ForceTLS = TRUE, a
\* registered command other than AUTH TLS that arrives with its parameter on
\* a cleartext session is answered with 534 and its handler is not executed.
C3_ForceTLS ==
    [][(Received /\ opts.ForceTLS /\ ~sess.tls
           /\ commandFound(Token) /\ ~paramMissing(Commands[Token], line.param)
           /\ ~(Token = "AUTH" /\ line.param = "TLS"))
        => /\ sess'.out = <<"534 Request denied for policy reasons. AUTH TLS required.">>
           /\ ~sess'.executed]_vars

\* C28: the reply to a line is decided by the first failing check, in this
\* order: unknown token, 500; a required parameter that is empty, 553;
\* ForceTLS (as the embedder set it) on a cleartext session with a command
\* other than AUTH TLS, 534; a command requiring authentication with no user,
\* 530; only when all four pass is the handler executed.
C28_CheckOrder ==
    [][Received
        => IF ~commandFound(Token)
           THEN sess'.out = <<"500 Command not found">> /\ ~sess'.executed
           ELSE IF paramMissing(Commands[Token], line.param)
           THEN /\ sess'.out = <<"553 action aborted, required param missing">>
                /\ ~sess'.executed
           ELSE IF opts.ForceTLS /\ ~sess.tls /\ ~(Token = "AUTH" /\ line.param = "TLS")
           THEN /\ sess'.out = <<"534 Request denied for policy reasons. AUTH TLS required.">>
                /\ ~sess'.executed
           ELSE IF Commands[Token].RequireAuth /\ sess.user = ""
           THEN sess'.out = <<"530 not logged in">> /\ ~sess'.executed
           ELSE sess'.executed]_vars

\* C29: preCommand is the upper-cased token of the most recent line whose
\* handler was invoked and returned normally: such a line stores its token,
\* and a line rejected with 500, 553, 534 or 530, or whose handler panicked,
\* leaves preCommand as it was.
C29_PreCommand ==
    [][Received
        => IF sess'.executed /\ ~sess'.panicked
           THEN sess'.preCommand = Token
           ELSE sess'.preCommand = sess.preCommand]_vars

\* C29 witness: after a handler returned and stored its token, the handler of
\* a line with another token panicked and the stored token is still there.
C29_Witness ==
    /\ pc = "read"
    /\ sess.executed /\ sess.panicked
    /\ sess.preCommand # ""
    /\ sess.preCommand # Token

\* Conn, controlReader, controlWriter and the tls flag of a session
Channel(s) == <<s.Conn, s.controlReader, s.controlWriter, s.tls>>

\* C33: upgradeToTLS changes the session only on success: a failed handshake
\* leaves Conn, controlReader, controlWriter and tls as they were; a handshake
\* that succeeds switches all four to the TLS stream together, before the next
\* line is read; once tls is true it never becomes false again.
C33_UpgradeAtomic ==
    /\ [](Channel(sess) \in {<<"tcp", "tcp", "tcp", FALSE>>, <<"tls", "tls", "tls", TRUE>>})
    /\ [][/\ (Received /\ sess'.closed /\ Token = "AUTH") => Channel(sess') = Channel(sess)
          /\ Channel(sess') # Channel(sess)
                => (Received /\ Token = "AUTH" /\ line.param \in {"TLS", "SSL"}
                    /\ ~sess'.closed /\ pc' = "read")
          /\ sess.tls => sess'.tls]_vars

\* C33 witness: the handshake of AUTH TLS failed on a cleartext session; the
\* session was closed with its cleartext channel untouched.
C33_Witness ==
    /\ Token = "AUTH" /\ line.param = "TLS"
    /\ sess.executed /\ sess.closed
    /\ Channel(sess) = <<"tcp", "tcp", "tcp", FALSE>>

\* a step in which Session.Close ran alone (the deferred Close of Serve)
ClosedAlone == pc = "exit" /\ pc' = "done"

\* C5: after Close returns, from any session state, closed is true, dataConn
\* is nil, a data connection that was present has been closed, the control
\* connection has been closed; a second Close leaves closed, dataConn, user
\* and reqUser as the first left them.
C5_Close ==
    [][ClosedAlone
        => /\ sess'.closed
           /\ sess'.dataConn = Nil
           /\ sess'.connCloses = sess.connCloses + 1
           /\ sess'.sockCloses = sess.sockCloses + (IF sess.dataConn # Nil THEN 1 ELSE 0)
           /\ sess'.user = "" /\ sess'.reqUser = ""
           /\ (sess.connCloses > 0
                 => /\ sess'.closed = sess.closed
                    /\ sess'.dataConn = sess.dataConn
                    /\ sess'.user = sess.user
                    /\ sess'.reqUser = sess.reqUser)]_vars

\* C5 witness: Close has run twice (QUIT's and the deferred one) on a session
\* that held a data connection, which was closed once.
C5_Witness ==
    /\ pc = "done"
    /\ sess.connCloses = 2
    /\ sess.sockCloses = 1
    /\ sess.closed /\ sess.dataConn = Nil

\* C8: after sendOutofbandData or sendOutofBandDataWriter returned, whether
\* the transfer succeeded or failed, dataConn is nil and the data connection
\* the session held has been closed exactly once.
C8_OneShot ==
    sess.xfer # "none"
        => /\ sess.dataConn = Nil
           /\ (sess.xferHeld => sess.sockCloses = 1)

\* C8 witness: a transfer through sendOutofBandDataWriter failed.
C8_Witness ==
    /\ sess.xfer = "sendOutofBandDataWriter"
    /\ sess.xferHeld /\ sess.writeFailed
    /\ sess.dataConn = Nil /\ sess.sockCloses = 1

\* C9: when the write to the data socket failed during a transfer, the data
\* socket is closed and no "226 Closing data connection" reply is written.
C9_NoSuccessReply ==
    sess.writeFailed
        => /\ sess.dataConn = Nil /\ sess.sockCloses = 1
           /\ ~Has(sess.out, "226 Closing data connection")

\* C10: a panic inside a command handler is recovered within that line: the
\* session is not closed (closed stays false, no socket is closed) and the
\* loop goes on to read the next line.
C10_HandlerPanic ==
    [][(Received /\ sess'.panicked)
        => /\ ~sess'.closed
           /\ sess'.connCloses = sess.connCloses
           /\ sess'.sockCloses = sess.sockCloses
           /\ pc' = "read"]_vars

\* C10 witness: the handler of the last line panicked and the session task
\* is reading the next line, still logged in.
C10_Witness ==
    /\ sess.panicked /\ sess.executed
    /\ pc = "read"
    /\ ~sess.closed /\ sess.connCloses = 0
    /\ sess.user = "admin"

\* C11 as stated: a panic raised by BeforeCommand is recovered and the session
\* survives it: the control connection stays open and the loop goes on.
C11_Original ==
    sess.notifyPanicked
        => /\ pc \notin {"exit", "done"}
           /\ ~sess.closed
           /\ sess.connCloses = 0

\* C11 (amended): a panic raised by a notifier hook never escapes Serve.  A
\* panic raised while a handler runs (the hooks the handlers call included) is
\* recovered by receiveLine and the session continues with the next line; a
\* panic raised by BeforeCommand is recovered by Serve's own deferred
\* function, which ends the session: the line is not dispatched, nothing is
\* replied, the loop is left and the deferred Close closes the connection.
C11_HookPanic ==
    [][/\ sess'.notifyPanicked
            => /\ pc' \in {"exit", "done"}
               /\ ~sess'.executed
               /\ sess'.out = <<>>
               /\ (pc' = "done" => sess'.closed /\ sess'.connCloses = 1)
       /\ (Received /\ sess'.panicked)
            => /\ pc' = "read"
               /\ ~sess'.closed
               /\ sess'.connCloses = 0]_vars

C11_Witness ==
    /\ sess.notifyPanicked
    /\ pc = "done"
    /\ sess.closed /\ sess.connCloses = 1
    /\ ~sess.executed

(***************************************************************************)
(* FairSpec: the session task keeps running once the loop is left, so the  *)
(* deferred functions of Serve run.                                        *)
(***************************************************************************)
FairSpec == Spec /\ WF_vars(ServeReturn)

LoopLeft == pc \notin {"exit", "done"} /\ pc' = "exit"

\* what C12 says of the steps of a session besides the ways the loop is left
LoopSteps ==
    /\ (pc = "read" /\ pc' = "exit") => sess' = sess
    /\ Received => /\ sess'.closed => pc' = "exit"
                   /\ ~sess'.closed => pc' = "read"
    /\ pc = "exit" => /\ pc' = "done"
                      /\ sess'.connCloses = sess.connCloses + 1
                      /\ sess'.executed = sess.executed
                      /\ sess'.out = sess.out
    /\ pc' = "done" => sess'.closed /\ sess'.dataConn = Nil
    /\ pc # "done"

\* C12 as stated: the loop is left in exactly two ways, a read error or a
\* handler that set closed; the deferred Close runs; a terminated session has
\* closed true and dataConn nil.
C12_Original ==
    [][/\ LoopLeft => (pc = "read" \/ (pc = "dispatch" /\ sess'.closed))
       /\ LoopSteps]_vars

\* C12 (amended): the loop is left in exactly three ways: a read error (no
\* further line is dispatched), a handler that set closed (the loop exits
\* without another read), or a panic of BeforeCommand unwinding Serve (the
\* line is not dispatched).  In each the deferred Close runs, and in every
\* terminated session closed is true and dataConn is nil.
C12_Terminates ==
    /\ [][/\ LoopLeft => \/ pc = "read"
                          \/ (pc = "dispatch" /\ sess'.closed)
                          \/ (pc = "notify" /\ sess'.notifyPanicked)
          /\ LoopSteps]_vars
    /\ (pc = "exit") ~> (pc = "done" /\ sess.closed /\ sess.dataConn = Nil)

\* QUIT with a data connection still in the slot
C12_Witness ==
    /\ pc = "done"
    /\ sess.out = <<"221 Goodbye">>
    /\ sess.sockCloses = 1
    /\ sess.closed /\ sess.dataConn = Nil

BeforeCommandOf(ln) == [name |-> "BeforeCommand", cmd |-> ln.cmd, param |-> ln.param]

\* C13: every line read is delivered to BeforeCommand exactly once, with that
\* line, before the command is looked up and before any reply or other hook;
\* the lines rejected with 500, 553, 534 or 530 included.
C13_BeforeCommand ==
    [][/\ (pc = "read" /\ pc' # "exit") => pc' = "notify" /\ sess'.hooks = <<>>
       /\ pc = "notify"
            => /\ sess.out = <<>> /\ sess.hooks = <<>> /\ ~sess.executed
               /\ sess'.hooks = <<BeforeCommandOf(line)>>
               /\ sess'.out = <<>> /\ ~sess'.executed
       /\ Received
            => /\ sess.hooks = <<BeforeCommandOf(line)>>
               /\ sess'.hooks[1] = BeforeCommandOf(line)
               /\ \A k \in 2..Len(sess'.hooks) :
                      sess'.hooks[k].name # "BeforeCommand"]_vars

\* a line rejected with 530
C13_Witness ==
    /\ pc = "read"
    /\ sess.out = <<"530 not logged in">>
    /\ ~sess.executed
    /\ sess.hooks = <<BeforeCommandOf(line)>>

\* names and passwords CheckPasswd is asked about
Credentials == {"", "admin", "Admin", "guest", "wrong", "admin "}

\* C23: CheckPasswd(name, pass) is true exactly when name is the configured
\* Name and pass the configured Password, false for every other pair (an
\* empty password included), and never returns an error; so a PASS with the
\* configured credentials is accepted, and a PASS with another password,
\* also after a login on the same session, is rejected.
C23_CheckPasswd ==
    /\ [](\A n, p \in Credentials :
             CheckPasswd(n, p) = [ok |-> (n = AuthName /\ p = AuthPassword), err |-> Nil])
    /\ [][(Received /\ Token = "PASS" /\ sess'.executed /\ ~sess'.panicked)
            => IF sess.reqUser = AuthName /\ line.param = AuthPassword
               THEN /\ sess'.out = <<"230 Password ok, continue">>
                    /\ sess'.user = AuthName
               ELSE /\ sess'.out = <<"530 Incorrect password, not logged in">>
                    /\ sess'.user = sess.user]_vars

\* a wrong password after a login on the same session
C23_Witness ==
    /\ pc = "read"
    /\ sess.user = AuthName
    /\ line = [cmd |-> "PASS", param |-> "wrong"]
    /\ sess.out = <<"530 Incorrect password, not logged in">>

\* C24: after a successful AUTH TLS upgrade the session is unauthenticated:
\* reqUser and user are empty.
C24_UpgradeResets ==
    [][(Received /\ ~sess.tls /\ sess'.tls)
        => (sess'.user = "" /\ sess'.reqUser = "")]_vars

(***************************************************************************)
(* SpecPath: one call of Session.buildPath, for every client-supplied      *)
(* filename of the bounded set and every current directory.                *)
(***************************************************************************)
PathAlphabet == {"/", ".", "a", "-"}

\* "/../../../etc", the path of the escape scenario
EtcPath == <<"/", ".", ".", "/", ".", ".", "/", ".", ".", "/", "e", "t", "c">>

PathInputs ==
    UNION {[1..n -> PathAlphabet] : n \in 0..MaxLen} \cup {EtcPath}

\* current directories: what changeCurDir stored after a CWD
CurDirs == {<<"/">>, <<"/", "a">>, <<"/", "a", "/", "-">>}

InitPath ==
    /\ opts = ZeroOptions
    /\ server = NewServer(ZeroOptions)
    /\ \E d \in CurDirs : sess = changeCurDir(newSession, d)
    /\ pc = "idle"
    /\ line = NoLine
    /\ pIn \in PathInputs
    /\ pOut = NoCall
    /\ SrvIdle
    /\ PasvIdle
    /\ ExtIdle

BuildPathCall ==
    /\ pOut = NoCall
    /\ pOut' = buildPath(sess.curDir, pIn)
    /\ UNCHANGED <<sessVars, pIn, srvVars, pasvVars, featVars, lineVars, drvVars, concVars>>

NextPath == BuildPathCall

SpecPath == InitPath /\ [][NextPath]_vars

\* the segments of a path: the pieces between its separators
RECURSIVE Segments(_, _)
Segments(s, cur) ==
    IF s = <<>> THEN <<cur>>
    ELSE IF Head(s) = "/" THEN <<cur>> \o Segments(Tail(s), <<>>)
    ELSE Segments(Tail(s), Append(cur, Head(s)))

\* normalisation as the path sandbox describes it: "." and empty segments
\* are dropped, ".." drops the segment before it and is dropped at the root
RECURSIVE Resolve(_, _)
Resolve(segs, kept) ==
    IF segs = <<>> THEN kept
    ELSE LET h == Head(segs) IN
         IF h = <<>> \/ h = <<".">> THEN Resolve(Tail(segs), kept)
         ELSE IF h = <<".", ".">>
         THEN Resolve(Tail(segs),
                      IF kept = <<>> THEN kept ELSE SubSeq(kept, 1, Len(kept) - 1))
         ELSE Resolve(Tail(segs), Append(kept, h))

RECURSIVE Rooted(_)
Rooted(segs) ==
    IF segs = <<>> THEN <<>> ELSE <<"/">> \o Head(segs) \o Rooted(Tail(segs))

Normalize(s) ==
    LET kept == Resolve(Segments(s, <<>>), <<>>)
    IN  IF kept = <<>> THEN <<"/">> ELSE Rooted(kept)

\* C6: for every client-supplied p and every absolute current directory the
\* result of buildPath begins with "/", has no "." or ".." segment and no
\* duplicate separator; "/../../../etc" gives "/etc".
C6_Sandboxed ==
    pOut # NoCall
        => /\ Len(pOut) >= 1 /\ pOut[1] = "/"
           /\ \A i \in 1..Len(pOut) - 1 : ~(pOut[i] = "/" /\ pOut[i + 1] = "/")
           /\ LET segs == Segments(pOut, <<>>) IN
              \A i \in 1..Len(segs) : segs[i] \notin {<<".">>, <<".", ".">>}
           /\ (pIn = EtcPath => pOut = <<"/", "e", "t", "c">>)

\* C6 witness: buildPath was called with "/../../../etc" and returned "/etc".
C6_Witness == pIn = EtcPath /\ pOut = <<"/", "e", "t", "c">>

\* C7: buildPath applies three cases in order: p beginning with "/" gives
\* normalize(p) whatever curDir is; else p non-empty and not "-a" gives
\* normalize(curDir + "/" + p); else normalize(curDir).  The call changes
\* no session field.
C7_ThreeCases ==
    [][(pOut = NoCall /\ pOut' # NoCall)
        => /\ pOut' = IF Len(pIn) > 0 /\ pIn[1] = "/"
                      THEN Normalize(pIn)
                      ELSE IF pIn # <<>> /\ pIn # <<"-", "a">>
                      THEN Normalize(sess.curDir \o <<"/">> \o pIn)
                      ELSE Normalize(sess.curDir)
           /\ sess' = sess]_vars

\* C7 witness: the literal "-a" was mapped to the current directory "/a".
C7_Witness ==
    /\ pIn = <<"-", "a">>
    /\ sess.curDir = <<"/", "a">>
    /\ pOut = <<"/", "a">>

(***************************************************************************)
(* SpecServer: the goroutine running Server.Serve, a goroutine calling     *)
(* Server.Shutdown, and the sessions Serve started.                        *)
(*   servePc = "idle"    Serve has not been called yet                     *)
(*   servePc = "store"   Serve was called, nothing is stored yet           *)
(*   servePc = "ctx"     server.listener is stored                         *)
(*   servePc = "accept"  ctx, cancel stored, sessionID drawn; in Accept    *)
(*   servePc = "returned"                                                  *)
(* A started session is [id, ctx, closed]: its id, the state of the        *)
(* context made for it, and whether its Serve has returned.                *)
(***************************************************************************)
ErrServerClosed == "ftp: Server closed"

\* what Accept returns once the listener is closed, and for another failure
ErrListenerClosed == "use of closed network connection"
ErrAccept == "accept: too many open files"

\* the values newSessionID can return
SessionIDs == {"id1", "id2"}

InitServer ==
    /\ SessIdle
    /\ PathIdle
    /\ SrvIdle
    /\ PasvIdle
    /\ ExtIdle

\* go s.Serve(l)
ServeCall ==
    /\ servePc = "idle"
    /\ servePc' = "store"
    /\ UNCHANGED <<sessVars, pathVars, pasvVars, featVars, lineVars, drvVars, concVars,
                 srv, lis, serveErr, shut, conns>>

\* server.listener = l
ServeStoreListener ==
    /\ servePc = "store"
    /\ srv' = [srv EXCEPT !.listener = "l"]
    /\ servePc' = "ctx"
    /\ UNCHANGED <<sessVars, pathVars, pasvVars, featVars, lineVars, drvVars, concVars,
                 lis, serveErr, shut, conns>>

\* server.ctx, server.cancel = context.WithCancel(...); sessionID := newSessionID()
\* (srv.draws counts the calls of newSessionID)
ServeStoreCtx ==
    /\ servePc = "ctx"
    /\ \E id \in SessionIDs :
         srv' = [srv EXCEPT !.cancel = "set", !.ctxDone = FALSE, !.sessionID = id,
                            !.draws = @ + 1]
    /\ servePc' = "accept"
    /\ UNCHANGED <<sessVars, pathVars, pasvVars, featVars, lineVars, drvVars, concVars,
                 lis, serveErr, shut, conns>>

\* the session newSession builds around an accepted connection: its id, the
\* context made for the connection, closed and user
acceptedSession(id) == [id |-> id, ctx |-> "active", closed |-> FALSE, user |-> ""]

\* Accept returns a connection: its context, newSession(sessionID, conn), go Serve()
AcceptConn ==
    /\ servePc = "accept"
    /\ lis = "open"
    /\ Len(conns) < MaxConns
    /\ conns' = Append(conns, acceptedSession(srv.sessionID))
    /\ UNCHANGED <<sessVars, pathVars, pasvVars, featVars, lineVars, drvVars, concVars,
                 srv, lis, servePc, serveErr, shut>>

\* Accept fails: return err (the error as Accept gave it), and the deferred
\* server.cancel()
AcceptFails ==
    /\ servePc = "accept"
    /\ \/ lis = "closed" /\ serveErr' = ErrListenerClosed
       \/ lis = "open" /\ serveErr' = ErrAccept
    /\ srv' = [srv EXCEPT !.ctxDone = TRUE]
    /\ servePc' = "returned"
    /\ UNCHANGED <<sessVars, pathVars, pasvVars, featVars, lineVars, drvVars, concVars,
                 lis, shut, conns>>

\* Shutdown: if server.cancel != nil { server.cancel() }
\* (shut.afterServe records that a Shutdown was called after Serve was)
ShutdownCancel ==
    /\ shut.pc = "idle"
    /\ shut.calls < MaxShutdowns
    /\ srv' = IF srv.cancel # Nil THEN [srv EXCEPT !.ctxDone = TRUE] ELSE srv
    /\ shut' = [shut EXCEPT !.pc = "close", !.afterServe = @ \/ servePc # "idle"]
    /\ UNCHANGED <<sessVars, pathVars, pasvVars, featVars, lineVars, drvVars, concVars,
                 lis, servePc, serveErr, conns>>

ShutdownCloseMutClosesSessions ==
    /\ shut.pc = "close"
    /\ lis' = IF srv.listener # Nil THEN "closed" ELSE lis
    /\ shut' = [shut EXCEPT !.pc = "idle", !.calls = @ + 1]
    /\ conns' = [i \in 1..Len(conns) |-> [conns[i] EXCEPT !.closed = TRUE, !.user = ""]]
    /\ UNCHANGED <<sessVars, pathVars, pasvVars, featVars, lineVars, drvVars, concVars,
                 srv, servePc, serveErr>>

\* Shutdown: if server.listener != nil { return server.listener.Close() }; return nil
ShutdownClose ==
    /\ shut.pc = "close"
    /\ lis' = IF srv.listener # Nil THEN "closed" ELSE lis
    /\ shut' = [shut EXCEPT !.pc = "idle", !.calls = @ + 1]
    /\ UNCHANGED <<sessVars, pathVars, pasvVars, featVars, lineVars, drvVars, concVars,
                 srv, servePc, serveErr, conns>>

\* the deadline of a session's context passes
ConnDeadline(i) ==
    /\ conns[i].ctx = "active"
    /\ conns' = [conns EXCEPT ![i].ctx = "expired"]
    /\ UNCHANGED <<sessVars, pathVars, pasvVars, featVars, lineVars, drvVars, concVars,
                 srv, lis, servePc, serveErr, shut>>

\* a session's Serve returns (QUIT or a read error): its deferred Close
ConnServeReturns(i) ==
    /\ ~conns[i].closed
    /\ conns' = [conns EXCEPT ![i].closed = TRUE, ![i].user = ""]
    /\ UNCHANGED <<sessVars, pathVars, pasvVars, featVars, lineVars, drvVars, concVars,
                 srv, lis, servePc, serveErr, shut>>

\* a session reads and executes the lines of a login (USER, PASS)
ConnLogin(i) ==
    /\ ~conns[i].closed
    /\ conns[i].user = ""
    /\ conns' = [conns EXCEPT ![i].user = AuthName]
    /\ UNCHANGED <<sessVars, pathVars, pasvVars, featVars, lineVars, drvVars, concVars,
                 srv, lis, servePc, serveErr, shut>>

NextServer ==
    \/ ServeCall
    \/ ServeStoreListener
    \/ ServeStoreCtx
    \/ AcceptConn
    \/ AcceptFails
    \/ ShutdownCancel
    \/ ShutdownClose
    \/ \E i \in 1..Len(conns) : ConnDeadline(i)
    \/ \E i \in 1..Len(conns) : ConnServeReturns(i)
    \/ \E i \in 1..Len(conns) : ConnLogin(i)

SpecServer == InitServer /\ [][NextServer]_vars

(***************************************************************************)
(* SpecServerFair: the goroutines of Serve and Shutdown keep running, and  *)
(* time passes, so a deadline that was set is reached, and an Accept on a  *)
(* closed listener returns its error.  Nothing is assumed of the clients   *)
(* (what they send, when they connect, when they leave) or of the host     *)
(* calling Shutdown.                                                       *)
(***************************************************************************)
SpecServerFair ==
    /\ SpecServer
    /\ WF_vars(ServeStoreListener \/ ServeStoreCtx)
    /\ WF_vars(ShutdownClose)
    /\ WF_vars(AcceptFails /\ lis = "closed")
    /\ WF_vars(\E i \in 1..Len(conns) : ConnDeadline(i))

\* C4: once Shutdown has closed the listener of a serving server, Serve
\* returns ErrServerClosed: the Accept error of the closed listener is
\* converted.
C4_ErrServerClosed ==
    (servePc = "returned" /\ shut.calls > 0 /\ serveErr # ErrAccept)
        => serveErr = ErrServerClosed

\* C14: Shutdown closes only the listener: the sessions accepted before it
\* keep their state through its steps and can still execute commands
\* afterwards; only new connections are refused.
C14_ShutdownFrame ==
    /\ [][/\ shut' # shut => conns' = conns
          /\ lis = "closed" => Len(conns') = Len(conns)]_vars
    /\ [](\A i \in 1..Len(conns) :
             (~conns[i].closed /\ conns[i].user = "") => ENABLED ConnLogin(i))

\* a session accepted before a completed Shutdown, open and logged in
C14_Witness ==
    /\ shut.calls > 0 /\ lis = "closed"
    /\ Len(conns) > 0
    /\ \E i \in 1..Len(conns) :
         /\ ~conns[i].closed
         /\ conns[i].ctx = "active"
         /\ conns[i].user = AuthName

\* C15: Shutdown cancels the root context and the cancellation reaches the
\* context of every accepted session: when a Shutdown that cancelled the root
\* context returns, no session context is still live.
C15_CancelPropagates ==
    [][(shut.pc = "close" /\ shut'.pc = "idle" /\ srv.cancel # Nil /\ srv.ctxDone)
        => \A i \in 1..Len(conns') : conns'[i].ctx # "active"]_vars

\* C16: once the deadline of a session has passed the session terminates,
\* whatever the client does.
C16_Deadline ==
    \A i \in 1..MaxConns :
        [](((i <= Len(conns)) /\ conns[i].ctx = "expired")
            => <>((i <= Len(conns)) /\ conns[i].closed))

\* C30: if Shutdown is called at any time after Serve was started in another
\* goroutine, also before Serve has stored the listener and the cancel
\* function, Serve eventually returns.
C30_ShutdownStopsServe == shut.afterServe ~> (servePc = "returned")

\* C17: every accepted connection has a session id drawn from newSessionID
\* for that connection: there are as many draws as accepted connections.
C17_FreshSessionID == Len(conns) <= srv.draws

(***************************************************************************)
(* Passive mode: Session.PassivePort and Session.passiveListenIP, with the *)
(* functions of strings and strconv they call.                             *)
(***************************************************************************)
Digits == <<"0", "1", "2", "3", "4", "5", "6", "7", "8", "9">>

IsDigit(c) == \E d \in 1..Len(Digits) : Digits[d] = c

DigitVal(c) == (CHOOSE d \in 1..Len(Digits) : Digits[d] = c) - 1

\* strings.Split(s, sep) for a one-character sep: the fields, in order
RECURSIVE SplitFrom(_, _, _, _)
SplitFrom(s, sep, i, field) ==
    IF i > Len(s) THEN <<field>>
    ELSE IF s[i] = sep THEN <<field>> \o SplitFrom(s, sep, i + 1, <<>>)
    ELSE SplitFrom(s, sep, i + 1, Append(field, s[i]))

Split(s, sep) == SplitFrom(s, sep, 1, <<>>)

\* strings.TrimSpace, for the white space of this model (the blank)
RECURSIVE TrimLeft(_)
TrimLeft(s) == IF s # <<>> /\ Head(s) = " " THEN TrimLeft(Tail(s)) ELSE s

RECURSIVE TrimRight(_)
TrimRight(s) ==
    IF s # <<>> /\ s[Len(s)] = " " THEN TrimRight(SubSeq(s, 1, Len(s) - 1)) ELSE s

TrimSpace(s) == TrimRight(TrimLeft(s))

\* the value of a string of decimal digits
RECURSIVE DecimalValue(_, _)
DecimalValue(s, acc) ==
    IF s = <<>> THEN acc ELSE DecimalValue(Tail(s), 10 * acc + DigitVal(Head(s)))

\* strconv.Atoi: an optional sign and decimal digits; the value is 0 with a
\* syntax error (the numbers of this model are far from the range of int)
Atoi(s) ==
    LET signed == s # <<>> /\ Head(s) \in {"+", "-"}
        body   == IF signed THEN Tail(s) ELSE s
    IN  IF body = <<>> \/ \E i \in 1..Len(body) : ~IsDigit(body[i])
        THEN [val |-> 0, err |-> "invalid syntax"]
        ELSE [val |-> IF signed /\ Head(s) = "-"
                      THEN 0 - DecimalValue(body, 0)
                      ELSE DecimalValue(body, 0),
              err |-> Nil]

\* mrand.Intn(n): panics for n <= 0, else any of 0 .. n-1
Intn(n) ==
    IF n <= 0 THEN {[panic |-> TRUE, val |-> 0]}
    ELSE {[panic |-> FALSE, val |-> r] : r \in 0..(n - 1)}

\* Session.PassivePort: the outcomes the call can have for the PassivePorts
\* of the server (a port returned, or the panic of Intn)
PassivePort(passivePorts) ==
    IF Len(passivePorts) > 0
    THEN LET portRange == Split(passivePorts, "-") IN
         IF Len(portRange) # 2
         THEN {[called |-> TRUE, panic |-> FALSE, port |-> 0]}
         ELSE LET minPort == Atoi(TrimSpace(portRange[1])).val
                  maxPort == Atoi(TrimSpace(portRange[2])).val
              IN  {[called |-> TRUE, panic |-> r.panic,
                    port |-> IF r.panic THEN 0 ELSE minPort + r.val] :
                       r \in Intn(maxPort - minPort)}
    ELSE {[called |-> TRUE, panic |-> FALSE, port |-> 0]}

\* strings.LastIndex(s, c) for a one-character c: 0-based, -1 if absent
RECURSIVE LastIndexFrom(_, _, _)
LastIndexFrom(s, c, i) ==
    IF i = 0 THEN 0 - 1
    ELSE IF s[i] = c THEN i - 1
    ELSE LastIndexFrom(s, c, i - 1)

LastIndex(s, c) == LastIndexFrom(s, c, Len(s))

Loopback6 == <<":", ":", "1">>

\* Session.passiveListenIP
passiveListenIP(publicIP, local) ==
    LET listenIP == IF Len(publicIP) > 0 THEN publicIP ELSE local
        lastIdx  == LastIndex(listenIP, ":")
    IN  IF listenIP = Loopback6 THEN listenIP
        ELSE IF lastIdx <= 0 THEN listenIP
        ELSE SubSeq(listenIP, 1, lastIdx)

(***************************************************************************)
(* SpecPort: one call of PassivePort on a session of a server built with   *)
(* a PassivePorts option.                                                  *)
(***************************************************************************)
\* strconv.Itoa for n >= 0, to write the ranges
RECURSIVE Itoa(_)
Itoa(n) == IF n < 10 THEN <<Digits[n + 1]>> ELSE Append(Itoa(n \div 10), Digits[(n % 10) + 1])

\* "min-max" for the ports up to MaxPort, the empty option, and values that
\* are not of that form
PortRanges ==
    {Itoa(a) \o <<"-">> \o Itoa(b) : a, b \in 0..MaxPort}
        \cup {<<>>,
              <<" ", "5", " ", "-", " ", "7", " ">>,
              <<"5">>,
              <<"5", "-", "6", "-", "7">>,
              <<"a", "-", "7">>,
              <<"-">>}

InitPort ==
    /\ \E r \in PortRanges : opts = [ZeroOptions EXCEPT !.PassivePorts = r]
    /\ server = NewServer(opts)
    /\ sess = newSession
    /\ pc = "idle"
    /\ line = NoLine
    /\ PathIdle
    /\ SrvIdle
    /\ PasvIdle
    /\ ExtIdle

PassivePortCall ==
    /\ ~portOut.called
    /\ portOut' \in PassivePort(server.Options.PassivePorts)
    /\ UNCHANGED <<sessVars, pathVars, srvVars, featVars, lineVars, drvVars, concVars, localIP, ipOut>>

NextPort == PassivePortCall

SpecPort == InitPort /\ [][NextPort]_vars

\* the range a PassivePorts of the form "min-max" names
RangeOf(passivePorts) ==
    LET portRange == Split(passivePorts, "-")
    IN  [wellFormed |-> /\ Len(portRange) = 2
                        /\ Atoi(TrimSpace(portRange[1])).err = Nil
                        /\ Atoi(TrimSpace(portRange[2])).err = Nil,
         min |-> IF Len(portRange) = 2 THEN Atoi(TrimSpace(portRange[1])).val ELSE 0,
         max |-> IF Len(portRange) = 2 THEN Atoi(TrimSpace(portRange[2])).val ELSE 0]

Configured == server.Options.PassivePorts

\* C18: with PassivePorts "min-max", min < max, PassivePort returns a port p
\* with min <= p <= max and every port of the range, max included, is a
\* possible result; with an empty PassivePorts it returns 0.
C18_InclusiveRange ==
    portOut.called
        => /\ (RangeOf(Configured).wellFormed
                  /\ RangeOf(Configured).min < RangeOf(Configured).max)
               => /\ ~portOut.panic
                  /\ RangeOf(Configured).min <= portOut.port
                  /\ portOut.port <= RangeOf(Configured).max
                  /\ \A q \in RangeOf(Configured).min..RangeOf(Configured).max :
                        \E o \in PassivePort(Configured) : ~o.panic /\ o.port = q
           /\ Configured = <<>> => (~portOut.panic /\ portOut.port = 0)

\* C19: with a zero-width range (min = max) PassivePort returns min and does
\* not panic.
C19_ZeroWidth ==
    (portOut.called /\ RangeOf(Configured).wellFormed
        /\ RangeOf(Configured).min = RangeOf(Configured).max)
        => (~portOut.panic /\ portOut.port = RangeOf(Configured).min)

(***************************************************************************)
(* SpecIP: one call of passiveListenIP on a session of a server built      *)
(* with a PublicIP option, for a local address of the control connection.  *)
(***************************************************************************)
IPAlphabet == {":", ".", "1", "a"}

\* addresses longer than MaxIPLen: IPv4, IPv4 with a port, a host name with
\* a port, IPv6
IPExamples ==
    {<<"1", "0", ".", "0", ".", "0", ".", "1">>,
     <<"1", "0", ".", "0", ".", "0", ".", "1", ":", "2", "1">>,
     <<"h", "o", "s", "t", ":", "2", "1">>,
     <<"2", "0", "0", "1", ":", "d", "b", "8", ":", ":", "1">>,
     <<"f", "e", "8", "0", ":", ":", "1">>}

PublicIPs == UNION {[1..n -> IPAlphabet] : n \in 0..MaxIPLen} \cup IPExamples

\* net.IP.String() of the local address of the control connection
LocalIPs ==
    {<<"1", "0", ".", "0", ".", "0", ".", "1">>,
     Loopback6,
     <<"f", "e", "8", "0", ":", ":", "1">>}

InitIP ==
    /\ \E ip \in PublicIPs : opts = [ZeroOptions EXCEPT !.PublicIP = ip]
    /\ server = NewServer(opts)
    /\ sess = newSession
    /\ pc = "idle"
    /\ line = NoLine
    /\ PathIdle
    /\ SrvIdle
    /\ localIP \in LocalIPs
    /\ portOut = NoPort
    /\ ipOut = NoCall
    /\ ExtIdle

PassiveListenIPCall ==
    /\ ipOut = NoCall
    /\ ipOut' = passiveListenIP(server.Options.PublicIP, localIP)
    /\ UNCHANGED <<sessVars, pathVars, srvVars, featVars, lineVars, drvVars, concVars, localIP, portOut>>

NextIP == PassiveListenIPCall

SpecIP == InitIP /\ [][NextIP]_vars

\* the number of colons of an address
RECURSIVE Colons(_)
Colons(s) ==
    IF s = <<>> THEN 0 ELSE (IF Head(s) = ":" THEN 1 ELSE 0) + Colons(Tail(s))

\* the address passiveListenIP starts from
Advertised ==
    IF server.Options.PublicIP # <<>> THEN server.Options.PublicIP ELSE localIP

\* an IPv6 literal: hexadecimal groups and at least two colons, no port
IsIPv6(s) ==
    /\ Colons(s) >= 2
    /\ \A i \in 1..Len(s) : s[i] # "."
    /\ \E i \in 1..Len(s) : s[i] # ":"

\* host:port, with a host and a port
IsHostPort(s) ==
    /\ Colons(s) = 1
    /\ Head(s) # ":"
    /\ s[Len(s)] # ":"

\* C20: passiveListenIP starts from PublicIP when it is non-empty, else from
\* the local IP of the control connection; an IPv6 literal (any, not only
\* "::1") is returned unchanged, an IPv4 address or host name without a
\* port is returned unchanged, and of a host:port only ":port" is removed.
C20_ListenIP ==
    ipOut # NoCall
        => /\ IsIPv6(Advertised) => ipOut = Advertised
           /\ Colons(Advertised) = 0 => ipOut = Advertised
           /\ IsHostPort(Advertised)
                => ipOut \o <<":">> \o Split(Advertised, ":")[2] = Advertised

(***************************************************************************)
(* SpecNew: NewServer called with Options of a bounded set, then the       *)
(* reply FEAT writes from the text NewServer built.                        *)
(***************************************************************************)
\* the server before NewServer is called
NoServer == [err |-> "NewServer not called", Options |-> Nil]

\* tokens of the registries given in Options.Commands
CustomTokens == {"SIZE", "MDTM", "NOOP"}

\* the registries over CustomTokens, for every choice of IsExtend
Registries ==
    {[k \in S |-> [handler |-> "custom", RequireParam |-> FALSE,
                   RequireAuth |-> FALSE, IsExtend |-> ext[k]]] :
        S \in SUBSET CustomTokens, ext \in [CustomTokens -> BOOLEAN]}

OptionValues ==
    {[ZeroOptions EXCEPT !.Hostname = h, !.Port = p, !.Timeout = d, !.Perm = perm,
                         !.TLS = tl, !.ForceTLS = ftl, !.Commands = c] :
        h \in {"", "127.0.0.1"}, p \in {0, 2122}, d \in {0 - 1, 0, 30},
        perm \in {Nil, "perm"}, tl \in BOOLEAN, ftl \in BOOLEAN,
        c \in Registries \cup {NilCommands}}

InitNew ==
    /\ opts \in OptionValues
    /\ server = NoServer
    /\ sess = newSession
    /\ pc = "idle"
    /\ line = NoLine
    /\ PathIdle
    /\ SrvIdle
    /\ PasvIdle
    /\ ExtIdle

\* NewServer(opts)
NewServerCall ==
    /\ server.err = NoServer.err
    /\ server' = NewServer(opts)
    /\ IF server'.err # Nil
       THEN feats' = <<>>
       ELSE \E order \in RangeOrders(ExtendKeys(server'.Options.Commands)) :
                feats' = buildFeats(server'.Options, order)
    /\ UNCHANGED <<opts, sess, pc, line, pathVars, srvVars, pasvVars,
                   featOut, lineVars, drvVars, concVars>>

\* the FEAT handler: sess.writeMessageMultiline(211, sess.server.feats)
FeatReply ==
    /\ server.err = Nil
    /\ featOut = <<>>
    /\ featOut' = writeMessageMultiline("211", feats)
    /\ UNCHANGED <<sessVars, pathVars, srvVars, pasvVars, feats, lineVars, drvVars, concVars>>

NextNew == NewServerCall \/ FeatReply

SpecNew == InitNew /\ [][NextNew]_vars

\* the lines of the FEAT text between " UTF8" and the TLS lines
ExtendLines(k) == SubSeq(feats, 5, 4 + 3 * k)

TLSLines == <<" AUTH TLS", LF, " PBSZ", LF, " PROT", LF>>

\* C21: the FEAT text is "Extensions supported:", then " UTF8", then exactly
\* one line " <token>" for every command of the registry whose IsExtend is
\* true and none for another command, then the lines " AUTH TLS", " PBSZ",
\* " PROT" if and only if Options.TLS; the reply written with
\* writeMessageMultiline(211, ...) begins with "211-" and ends with
\* "211 END\r\n".
C21_Feat ==
    server.err = Nil
        => LET ext == ExtendKeys(server.Options.Commands)
               k   == Cardinality(ext)
           IN  /\ Len(feats) = 4 + 3 * k + (IF server.Options.TLS THEN Len(TLSLines) ELSE 0)
               /\ SubSeq(feats, 1, 4) = <<"Extensions supported:", LF, " UTF8", LF>>
               /\ \A i \in 1..k :
                     /\ ExtendLines(k)[3 * i - 2] = " "
                     /\ ExtendLines(k)[3 * i - 1] \in ext
                     /\ ExtendLines(k)[3 * i] = LF
               /\ \A i, j \in 1..k :
                     i # j => ExtendLines(k)[3 * i - 1] # ExtendLines(k)[3 * j - 1]
               /\ SubSeq(feats, 5 + 3 * k, Len(feats))
                     = (IF server.Options.TLS THEN TLSLines ELSE <<>>)
               /\ featOut # <<>>
                     => /\ SubSeq(featOut, 1, 2) = <<"211", "-">>
                        /\ SubSeq(featOut, 3, Len(featOut) - 4) = feats
                        /\ SubSeq(featOut, Len(featOut) - 3, Len(featOut))
                              = <<CRLF, "211", " END", CRLF>>

\* a registry with two extensions and another command, TLS on, FEAT replied
C21_Witness ==
    /\ server.err = Nil
    /\ featOut # <<>>
    /\ server.Options.TLS
    /\ Cardinality(ExtendKeys(server.Options.Commands)) = 2
    /\ Cardinality(DOMAIN server.Options.Commands) = 3

\* C22: NewServer returns an error and no server whenever Options.Perm is
\* nil; with a Perm it returns a server whose unset options have the
\* defaults Hostname "::", Port 2121, Timeout 60s and whose set options keep
\* the caller's values.
C22_NewServer ==
    server.err # NoServer.err
        => IF opts.Perm = Nil
           THEN server.err = "No perm implementation"
           ELSE /\ server.err = Nil
                /\ server.Options.Hostname = (IF opts.Hostname = "" THEN "::" ELSE opts.Hostname)
                /\ server.Options.Port = (IF opts.Port = 0 THEN 2121 ELSE opts.Port)
                /\ server.Options.Timeout = (IF opts.Timeout <= 0 THEN 60 ELSE opts.Timeout)
                /\ server.Options.Perm = opts.Perm
                /\ server.Options.TLS = opts.TLS
                /\ server.Options.ForceTLS = opts.ForceTLS
                /\ opts.Commands # NilCommands
                      => server.Options.Commands = opts.Commands

(***************************************************************************)
(* SpecLine: one call of Session.parseLine on a line read from the control *)
(* connection, and the token receiveLine looks up.                         *)
(***************************************************************************)
CR == "\r"

\* strings.Trim(s, cutset): the characters of cutset are removed at both ends
RECURSIVE TrimLeftSet(_, _)
TrimLeftSet(s, cutset) ==
    IF s # <<>> /\ Head(s) \in cutset THEN TrimLeftSet(Tail(s), cutset) ELSE s

RECURSIVE TrimRightSet(_, _)
TrimRightSet(s, cutset) ==
    IF s # <<>> /\ s[Len(s)] \in cutset
    THEN TrimRightSet(SubSeq(s, 1, Len(s) - 1), cutset)
    ELSE s

Trim(s, cutset) == TrimRightSet(TrimLeftSet(s, cutset), cutset)

\* strings.Index(s, c) for a one-character c: 0-based, -1 if absent
RECURSIVE IndexFrom(_, _, _)
IndexFrom(s, c, i) ==
    IF i > Len(s) THEN 0 - 1
    ELSE IF s[i] = c THEN i - 1
    ELSE IndexFrom(s, c, i + 1)

Index(s, c) == IndexFrom(s, c, 1)

\* strings.SplitN(s, sep, 2) for a one-character sep
SplitN2(s, sep) ==
    LET m == Index(s, sep)
    IN  IF m < 0 THEN <<s>>
        ELSE <<SubSeq(s, 1, m), SubSeq(s, m + 2, Len(s))>>

\* strings.ToUpper, on the letters of the lines of this model
ToUpperChar(c) ==
    CASE c = "u" -> "U"
      [] c = "s" -> "S"
      [] c = "e" -> "E"
      [] c = "r" -> "R"
      [] c = "d" -> "D"
      [] c = "l" -> "L"
      [] OTHER -> c

ToUpperChars(s) == [i \in 1..Len(s) |-> ToUpperChar(s[i])]

parseLineMutTrimParam(ln) ==
    LET params == SplitN2(Trim(ln, {CR, LF}), " ")
    IN  IF Len(params) = 0 THEN <<<<>>, <<>>>>
        ELSE IF Len(params) = 1 THEN <<params[1], <<>>>>
        ELSE <<params[1], TrimSpace(params[2])>>

\* Session.parseLine
parseLine(ln) ==
    LET params == SplitN2(Trim(ln, {CR, LF}), " ")
    IN  IF Len(params) = 0 THEN <<<<>>, <<>>>>
        ELSE IF Len(params) = 1 THEN <<params[1], <<>>>>
        ELSE <<params[1], params[2]>>

RawAlphabet == {"u", "S", " ", CR, LF}

\* lines longer than MaxRaw
RawExamples ==
    {<<"S", "T", "O", "R", " ", " ", "f", "i", "l", "e", "_", "n", "a", "m", "e", " ", ".", "t", "e", "s", "t", CR, LF>>,
     <<"d", "e", "l", "e", " ", " ", "f", "i", "l", "e", "_", "n", "a", "m", "e", " ", ".", "t", "e", "s", "t", CR, LF>>,
     <<"u", "s", "e", "r", " ", "a", "d", "m", "i", "n", CR, LF>>}

RawLines == UNION {[1..n -> RawAlphabet] : n \in 0..MaxRaw} \cup RawExamples

InitLine ==
    /\ SessIdle
    /\ PathIdle
    /\ SrvIdle
    /\ PasvIdle
    /\ FeatIdle
    /\ DrvIdle
    /\ ConcIdle
    /\ rawLine \in RawLines
    /\ parsed = NoParse

\* receiveLine: command, param := sess.parseLine(line);
\* cmdGiven := strings.ToUpper(command)
ParseLineCall ==
    /\ ~parsed.called
    /\ LET r == parseLine(rawLine)
       IN  parsed' = [called |-> TRUE, command |-> r[1], param |-> r[2],
                      cmdGiven |-> ToUpperChars(r[1])]
    /\ UNCHANGED <<sessVars, pathVars, srvVars, pasvVars, featVars, rawLine, drvVars, concVars>>

NextLine == ParseLineCall

SpecLine == InitLine /\ [][NextLine]_vars

IsEOL(c) == c = CR \/ c = LF

\* the line without the CR and LF at its two ends
Body ==
    LET keep == {i \in 1..Len(rawLine) : ~IsEOL(rawLine[i])}
    IN  IF keep = {} THEN <<>>
        ELSE SubSeq(rawLine,
                    CHOOSE i \in keep : \A j \in keep : i <= j,
                    CHOOSE i \in keep : \A j \in keep : j <= i)

\* position of the first space of the body, 0 without one
FirstSpace ==
    LET sp == {i \in 1..Len(Body) : Body[i] = " "}
    IN  IF sp = {} THEN 0 ELSE CHOOSE i \in sp : \A j \in sp : i <= j

SameLetters(a, b) ==
    /\ Len(a) = Len(b)
    /\ \A i \in 1..Len(a) :
          \/ a[i] = b[i]
          \/ ToUpperChar(a[i]) = b[i]

\* C25: parsing removes only the CR and LF at the ends of the line and splits
\* once at the first space: the token is what precedes that space, looked up
\* upper-cased; the parameter is what follows it, unchanged, its leading,
\* inner and trailing spaces included; a line without a space has the empty
\* parameter.
C25_ParseLine ==
    parsed.called
        => /\ parsed.command
                = (IF FirstSpace = 0 THEN Body ELSE SubSeq(Body, 1, FirstSpace - 1))
           /\ parsed.param
                = (IF FirstSpace = 0 THEN <<>>
                   ELSE SubSeq(Body, FirstSpace + 1, Len(Body)))
           /\ SameLetters(parsed.command, parsed.cmdGiven)
           /\ \A i \in 1..Len(parsed.cmdGiven) :
                  parsed.cmdGiven[i] \notin {"u", "s", "e", "r", "d", "l"}
           /\ FirstSpace # 0
                => parsed.command \o <<" ">> \o parsed.param = Body

\* the file name " file_name .test" of a DELE sent in lower case
C25_Witness ==
    /\ parsed.called
    /\ rawLine = <<"d", "e", "l", "e", " ", " ", "f", "i", "l", "e", "_", "n", "a", "m", "e", " ", ".", "t", "e", "s", "t", CR, LF>>
    /\ parsed.cmdGiven = <<"D", "E", "L", "E">>
    /\ parsed.param = <<" ", "f", "i", "l", "e", "_", "n", "a", "m", "e", " ", ".", "t", "e", "s", "t">>

(***************************************************************************)
(* SpecDriver: the memory driver (MakeDir, DeleteDir, DeleteFile, Rename,  *)
(* PutFile, GetFile) over its memfs file system.  A file handle is a       *)
(* record: the position, whether Close was called on it, whether it can    *)
(* be read.                                                                *)
(*                                                                         *)
(* What memfs does with a handle after its Close, and with a Write on a    *)
(* handle that Open returned (read-only), is not fixed by this code: both  *)
(* outcomes, the call works or it fails, are in the model; so is whether   *)
(* Rename replaces an entry that exists.                                   *)
(* PutFile waits for its data in each Read of io.Copy, so it is a step up  *)
(* to the first Read, a step for each Read that returns bytes and the      *)
(* Write that follows, and a step for the return; the calls of other       *)
(* sessions run in between.  The other methods do not wait.                *)
(***************************************************************************)
Paths == {"/f", "/d"}

Bytes == {"a", "b"}

\* the byte of a gap left by a write beyond the end of a file
ZeroByte == "0"

DataValues == UNION {[1..n -> Bytes] : n \in 0..MaxData}

\* offsets handed to GetFile and PutFile
Offsets == (0 - 1)..MaxOffset

NoEntry == [kind |-> "none", data |-> <<>>]

\* memfs.NewFS(): no file, no directory besides the root
NewFS == [p \in Paths |-> NoEntry]

NoStream == [pos |-> 0, closed |-> TRUE, readable |-> FALSE, rest |-> <<>>]

\* what a driver call returned
Returned(op, path, offset, data, n, err, stream) ==
    [op |-> op, path |-> path, offset |-> offset, data |-> data,
     n |-> n, err |-> err, stream |-> stream]

\* io.Copy(of, data) at position pos of a file holding old: empty data calls
\* no Write and leaves the file alone; else a gap is zero-filled
WriteAt(old, pos, data) ==
    IF data = <<>> THEN old ELSE
    [i \in 1..(IF pos + Len(data) > Len(old) THEN pos + Len(data) ELSE Len(old)) |->
        IF i > pos /\ i <= pos + Len(data) THEN data[i - pos]
        ELSE IF i <= Len(old) THEN old[i]
        ELSE ZeroByte]

\* Driver.MakeDir: driver.fs.Mkdir(filePath, defaultDirMode)
MakeDir(fs, path) ==
    IF fs[path].kind # "none"
    THEN [fs |-> fs, ret |-> Returned("MakeDir", path, 0, <<>>, 0, "file exists", NoStream)]
    ELSE [fs  |-> [fs EXCEPT ![path] = [kind |-> "dir", data |-> <<>>]],
          ret |-> Returned("MakeDir", path, 0, <<>>, 0, Nil, NoStream)]

\* Driver.DeleteDir: driver.fs.RemoveAll(filePath); a missing path is no error
DeleteDir(fs, path) ==
    [fs  |-> [fs EXCEPT ![path] = NoEntry],
     ret |-> Returned("DeleteDir", path, 0, <<>>, 0, Nil, NoStream)]

\* Driver.DeleteFile: driver.fs.Remove(filePath)
DeleteFile(fs, path) ==
    IF fs[path].kind = "none"
    THEN [fs |-> fs, ret |-> Returned("DeleteFile", path, 0, <<>>, 0,
                                      "file does not exist", NoStream)]
    ELSE [fs  |-> [fs EXCEPT ![path] = NoEntry],
          ret |-> Returned("DeleteFile", path, 0, <<>>, 0, Nil, NoStream)]

\* Driver.Rename: driver.fs.Rename(fromPath, toPath); replace tells whether
\* memfs moves an entry onto a path that exists
Rename(fs, fromPath, toPath, replace) ==
    IF fs[fromPath].kind = "none"
    THEN [fs |-> fs, ret |-> Returned("Rename", fromPath, 0, <<>>, 0,
                                      "file does not exist", NoStream)]
    ELSE IF fromPath = toPath
    THEN [fs |-> fs, ret |-> Returned("Rename", fromPath, 0, <<>>, 0, Nil, NoStream)]
    ELSE IF fs[toPath].kind # "none" /\ ~replace
    THEN [fs |-> fs, ret |-> Returned("Rename", fromPath, 0, <<>>, 0,
                                      "file exists", NoStream)]
    ELSE [fs  |-> [fs EXCEPT ![toPath] = fs[fromPath], ![fromPath] = NoEntry],
          ret |-> Returned("Rename", fromPath, 0, <<>>, 0, Nil, NoStream)]

\* Driver.GetFile; afterClose tells whether memfs still serves a handle
\* after its Close
GetFile(fs, path, offset, afterClose) ==
    LET size == Len(fs[path].data) IN
    IF fs[path].kind = "none"
    THEN Returned("GetFile", path, offset, <<>>, 0, "cannot open file", NoStream)
    ELSE IF ~afterClose
    THEN Returned("GetFile", path, offset, <<>>, 0, "cannot get stat's of file", NoStream)
    ELSE IF offset < 0
    THEN Returned("GetFile", path, offset, <<>>, 0, "cannot seek file", NoStream)
    ELSE Returned("GetFile", path, offset, <<>>, size - offset, Nil,
                  [pos |-> offset, closed |-> TRUE, readable |-> afterClose,
                   rest |-> SubSeq(fs[path].data, offset + 1, size)])

\* the sessions that can be inside PutFile
Uploaders == {"A"}

NoUpload == [pc |-> "idle", calls |-> 0]

\* the error of a data reader that fails
ErrUnexpectedEOF == "unexpected EOF"

\* Driver.PutFile up to its io.Copy: Lstat, then Remove and Create, or Open,
\* Stat and Seek(offset, io.SeekEnd).  create tells that the file was made
\* anew, pos is the position of the handle.
PutFileOpen(fs, path, offset) ==
    LET exists == fs[path].kind # "none"
        off    == IF offset > 0 - 1 /\ ~exists THEN 0 - 1 ELSE offset
        size   == Len(fs[path].data)
    IN  IF fs[path].kind = "dir"
        THEN [fs |-> fs, err |-> "dir already exists", create |-> FALSE, pos |-> 0]
        ELSE IF off = 0 - 1
        THEN [fs  |-> [fs EXCEPT ![path] = [kind |-> "file", data |-> <<>>]],
              err |-> Nil, create |-> TRUE, pos |-> 0]
        ELSE IF off > size
        THEN [fs |-> fs, err |-> "offset is beyond file size", create |-> FALSE, pos |-> 0]
        ELSE IF size + off < 0
        THEN [fs |-> fs, err |-> "cannot seek file", create |-> FALSE, pos |-> 0]
        ELSE [fs |-> fs, err |-> Nil, create |-> FALSE, pos |-> size + off]

\* io.Copy inside PutFile, for the call h in progress: a Read returned chunk
\* and Write(chunk) is called on the handle.  writable tells whether memfs
\* accepts a Write on the handle fs.Open returned, orphanOk whether it accepts
\* one on a handle whose file was removed or replaced meanwhile (h.live is
\* false).  h.data is what the reader has delivered, h.n what was written.
PutFileWrite(fs, h, chunk, writable, orphanOk) ==
    LET read == [h EXCEPT !.data = @ \o chunk]
        done == [read EXCEPT !.n = @ + Len(chunk), !.pos = @ + Len(chunk)]
    IN  IF ~h.create /\ ~writable
        THEN [fs |-> fs, h |-> [read EXCEPT !.err = "bad file descriptor"]]
        ELSE IF ~h.live
        THEN [fs |-> fs,
              h  |-> IF orphanOk THEN done ELSE [read EXCEPT !.err = "file does not exist"]]
        ELSE [fs |-> [fs EXCEPT ![h.path].data = WriteAt(@, h.pos, chunk)], h |-> done]

\* Driver.PutFile after io.Copy returned, for the call h: the error of the
\* Write or of the Read that failed (readOk is false), else the bytes written
PutFileReturn(h, readOk) ==
    IF h.err # Nil
    THEN Returned("PutFile", h.called, h.offset, h.data, 0, h.err, NoStream)
    ELSE IF ~readOk
    THEN Returned("PutFile", h.called, h.offset, h.data, 0, ErrUnexpectedEOF, NoStream)
    ELSE Returned("PutFile", h.called, h.offset, h.data, h.n, Nil, NoStream)

\* the calls in progress after another call changed the file system: they
\* were overlapped, and a handle on an entry that is gone is no longer live
Overlapped(up, gone) ==
    [u \in DOMAIN up |->
        IF up[u].pc = "idle" THEN up[u]
        ELSE [up[u] EXCEPT !.overlapped = TRUE,
                           !.live = @ /\ up[u].path \notin gone]]

\* the calls in progress after fromPath was moved to toPath: an open handle
\* stays with its file
Moved(up, fromPath, toPath) ==
    [u \in DOMAIN up |->
        IF up[u].pc = "idle" THEN up[u]
        ELSE [up[u] EXCEPT !.overlapped = TRUE,
                           !.live = @ /\ up[u].path # toPath,
                           !.path = IF @ = fromPath THEN toPath ELSE @]]

\* the PutFile calls made so far
RECURSIVE PutCalls(_, _)
PutCalls(up, us) ==
    IF us = {} THEN 0
    ELSE LET u == CHOOSE x \in us : TRUE
         IN  up[u].calls + PutCalls(up, us \ {u})

InitDriver ==
    /\ SessIdle
    /\ PathIdle
    /\ SrvIdle
    /\ PasvIdle
    /\ FeatIdle
    /\ LineIdle
    /\ files = NewFS
    /\ drvOut = NoDriverCall
    /\ upl = [u \in Uploaders |-> NoUpload]
    /\ ConcIdle

DrvFrame ==
    UNCHANGED <<sessVars, pathVars, srvVars, pasvVars, featVars, lineVars, concVars>>

MakeDirCall ==
    /\ \E path \in Paths :
         LET r == MakeDir(files, path)
         IN  /\ files' = r.fs
             /\ drvOut' = r.ret
             /\ upl' = IF r.fs # files THEN Overlapped(upl, {}) ELSE upl
    /\ DrvFrame

\* PutFile is called and runs up to the first Read of io.Copy, where it waits
\* for the data; an error before that returns at once
PutFileBegin(u) ==
    /\ upl[u].pc = "idle"
    /\ PutCalls(upl, Uploaders) < MaxPuts
    /\ \E path \in Paths, offset \in Offsets :
         LET r == PutFileOpen(files, path, offset)
         IN  IF r.err # Nil
             THEN /\ drvOut' = Returned("PutFile", path, offset, <<>>, 0, r.err, NoStream)
                  /\ files' = files
                  /\ upl' = [upl EXCEPT ![u].calls = @ + 1]
             ELSE /\ files' = r.fs
                  /\ drvOut' = drvOut
                  /\ upl' = [(IF r.create THEN Overlapped(upl, {path}) ELSE upl)
                               EXCEPT ![u] = [pc |-> "copy", calls |-> upl[u].calls + 1,
                                              called |-> path, path |-> path,
                                              offset |-> offset, create |-> r.create,
                                              pos |-> r.pos, live |-> TRUE,
                                              overlapped |-> FALSE,
                                              data |-> <<>>, n |-> 0, err |-> Nil]]
    /\ DrvFrame

\* a Read of io.Copy returns bytes and they are written; io.Copy goes back to
\* Read unless the Write failed
PutFileCopy(u) ==
    /\ upl[u].pc = "copy"
    /\ upl[u].err = Nil
    /\ \E chunk \in DataValues \ {<<>>}, writable \in BOOLEAN, orphanOk \in BOOLEAN :
         LET r == PutFileWrite(files, upl[u], chunk, writable, orphanOk)
         IN  /\ Len(upl[u].data) + Len(chunk) <= MaxData
             /\ files' = r.fs
             /\ upl' = [(IF r.fs # files THEN Overlapped(upl, {}) ELSE upl)
                          EXCEPT ![u] = r.h]
    /\ drvOut' = drvOut
    /\ DrvFrame

\* io.Copy returns (the Read met the end of the data or failed, or the Write
\* had failed), the deferred Close runs and PutFile returns
PutFileEnd(u) ==
    /\ upl[u].pc = "copy"
    /\ \E readOk \in BOOLEAN : drvOut' = PutFileReturn(upl[u], readOk)
    /\ upl' = [upl EXCEPT ![u] = [pc |-> "idle", calls |-> upl[u].calls]]
    /\ files' = files
    /\ DrvFrame

GetFileCall ==
    /\ \E path \in Paths, offset \in Offsets, afterClose \in BOOLEAN :
         drvOut' = GetFile(files, path, offset, afterClose)
    /\ UNCHANGED <<files, upl>>
    /\ DrvFrame

DeleteDirCall ==
    /\ \E path \in Paths :
         LET r == DeleteDir(files, path)
         IN  /\ files' = r.fs
             /\ drvOut' = r.ret
             /\ upl' = IF r.fs # files THEN Overlapped(upl, {path}) ELSE upl
    /\ DrvFrame

DeleteFileCall ==
    /\ \E path \in Paths :
         LET r == DeleteFile(files, path)
         IN  /\ files' = r.fs
             /\ drvOut' = r.ret
             /\ upl' = IF r.fs # files THEN Overlapped(upl, {path}) ELSE upl
    /\ DrvFrame

RenameCall ==
    /\ \E fromPath \in Paths, toPath \in Paths, replace \in BOOLEAN :
         LET r == Rename(files, fromPath, toPath, replace)
         IN  /\ files' = r.fs
             /\ drvOut' = r.ret
             /\ upl' = IF r.fs # files THEN Moved(upl, fromPath, toPath) ELSE upl
    /\ DrvFrame

NextDriver ==
    \/ MakeDirCall
    \/ DeleteDirCall
    \/ DeleteFileCall
    \/ RenameCall
    \/ \E u \in Uploaders : PutFileBegin(u)
    \/ \E u \in Uploaders : PutFileCopy(u)
    \/ \E u \in Uploaders : PutFileEnd(u)
    \/ GetFileCall

SpecDriver == InitDriver /\ [][NextDriver]_vars

\* C26: GetFile(path, N) on a stored file, 0 <= N <= len(data), returns the
\* remaining size len(data) - N and an open, readable stream at byte N:
\* reading it to the end yields data[N:].  (Stated on the step of the call,
\* its result against the file as the call found it, for a file no PutFile
\* is writing.)
C26_GetFile ==
    [][(/\ drvOut'.op = "GetFile"
        /\ drvOut' # drvOut
        /\ \A u \in Uploaders : upl[u].pc = "idle"
        /\ files[drvOut'.path].kind = "file"
        /\ 0 <= drvOut'.offset
        /\ drvOut'.offset <= Len(files[drvOut'.path].data))
           => /\ drvOut'.err = Nil
              /\ drvOut'.n = Len(files[drvOut'.path].data) - drvOut'.offset
              /\ ~drvOut'.stream.closed
              /\ drvOut'.stream.readable
              /\ drvOut'.stream.rest
                    = SubSeq(files[drvOut'.path].data, drvOut'.offset + 1,
                             Len(files[drvOut'.path].data))]_vars

\* C27: PutFile with offset -1 leaves exactly the data in the file and returns
\* its length; with 0 <= offset <= S on an existing file of size S it writes
\* the data from byte offset on and leaves the bytes before offset as they
\* were; on an existing directory it returns an error and changes nothing.
\* (Stated for the calls whose reader delivered its data and which no other
\* call overlapped: at the return of PutFile for the count and the content,
\* at each Write for the bytes before offset.)
C27_PutFile ==
    [][/\ \A u \in Uploaders :
            (/\ upl[u].pc = "copy" /\ upl'[u].pc = "idle"
             /\ ~upl[u].overlapped
             /\ drvOut'.err # ErrUnexpectedEOF)
                => LET path == upl[u].called
                       off  == upl[u].offset
                       data == upl[u].data
                       new  == files'[path]
                   IN  /\ off = 0 - 1
                            => /\ drvOut'.err = Nil
                               /\ drvOut'.n = Len(data)
                               /\ new = [kind |-> "file", data |-> data]
                       /\ (~upl[u].create /\ 0 <= off)
                            => /\ drvOut'.err = Nil
                               /\ drvOut'.n = Len(data)
                               /\ Len(new.data) >= off + Len(data)
                               /\ SubSeq(new.data, off + 1, off + Len(data)) = data
       /\ \A u \in Uploaders :
            (/\ upl[u].pc = "copy" /\ upl'[u].pc = "copy"
             /\ upl'[u].data # upl[u].data
             /\ ~upl[u].overlapped /\ ~upl[u].create /\ 0 <= upl[u].offset)
                => SubSeq(files'[upl[u].called].data, 1, upl[u].offset)
                      = SubSeq(files[upl[u].called].data, 1, upl[u].offset)
       /\ (/\ drvOut'.op = "PutFile" /\ drvOut' # drvOut
           /\ \A u \in Uploaders : upl'[u].pc = upl[u].pc
           /\ files[drvOut'.path].kind = "dir")
            => (drvOut'.err # Nil /\ files' = files)]_vars

(***************************************************************************)
(* SpecLock: server.CommandsMu.  Session goroutines run Serve, whose       *)
(* receiveLine takes the read lock and releases it in a deferred call; a   *)
(* writer (an embedder's goroutine) takes the write lock to replace a      *)
(* handler.  sync.RWMutex: RLock waits while a writer holds the lock or is *)
(* waiting for it; Lock waits until no reader and no writer holds it.      *)
(*   gor.s[i].sess           the Session of goroutine i, kept from line to *)
(*                           line as the handlers leave it                 *)
(*   gor.s[i].pc = "start"   Serve was started                             *)
(*                 "read"    Serve waits for the next line                 *)
(*                 "rlock"   receiveLine was entered, RLock is next        *)
(*                 "lookup"  the read lock is held, the checks are next    *)
(*                 "exec"    cmdObj.Execute is running                     *)
(*                 "done"    Serve has returned                            *)
(*   gor.s[i].holds          RLock calls minus RUnlock calls of session i  *)
(*   gor.w.pc = "idle", "waiting" (Lock was called), "holding"             *)
(* A handler that is executing need not return: it can wait for its data   *)
(* connection for ever.                                                    *)
(***************************************************************************)
LockSessions == {"s1", "s2"}

\* the lines the sessions of SpecLock receive: one for each way out
LockLines ==
    {[cmd |-> "xxxx", param |-> ""], [cmd |-> "USER", param |-> ""],
     [cmd |-> "USER", param |-> "admin"], [cmd |-> "PASS", param |-> "admin"],
     [cmd |-> "PASV", param |-> ""], [cmd |-> "QUIT", param |-> ""]}

\* the session of goroutine i as receiveLine finds it
LockSession(i) == gor.s[i].sess

RLock(m) == [m EXCEPT !.readers = @ + 1]

RUnlock(m) == [m EXCEPT !.readers = @ - 1]

InitLock ==
    /\ opts = ZeroOptions
    /\ server \in {[NewServer(ZeroOptions) EXCEPT !.Options.ForceTLS = f] : f \in BOOLEAN}
    /\ sess = newSession
    /\ pc = "idle"
    /\ line = NoLine
    /\ PathIdle
    /\ SrvIdle
    /\ PasvIdle
    /\ FeatIdle
    /\ LineIdle
    /\ DrvIdle
    /\ mu = NoMutex
    /\ gor = [s |-> [i \in LockSessions |->
                       [pc |-> "start", sess |-> newSession, line |-> NoLine, holds |-> 0]],
              w |-> [pc |-> "idle", swaps |-> 0]]
    /\ race = NoRace

LockFrame ==
    UNCHANGED <<sessVars, pathVars, srvVars, pasvVars, featVars, lineVars, drvVars, race>>

\* Serve: sess.writeMessage(220, sess.server.WelcomeMessage)
LockServeStart(i) ==
    /\ gor.s[i].pc = "start"
    /\ gor' = [gor EXCEPT !.s[i].pc = "read",
                          !.s[i].sess = writeMessage(@, "220 Welcome to the Go FTP Server")]
    /\ UNCHANGED mu
    /\ LockFrame

\* Serve read a line, BeforeCommand returned, receiveLine is called
LockReadLine(i) ==
    /\ gor.s[i].pc = "read"
    /\ \E l \in LockLines :
         gor' = [gor EXCEPT !.s[i].pc = "rlock", !.s[i].line = l,
                            !.s[i].sess = BeforeCommand(freshLine(@), l)]
    /\ UNCHANGED mu
    /\ LockFrame

\* ReadString returns an error: break, Serve returns, defer sess.Close()
LockReadError(i) ==
    /\ gor.s[i].pc = "read"
    /\ gor' = [gor EXCEPT !.s[i].pc = "done", !.s[i].line = NoLine,
                          !.s[i].sess = Close(@)]
    /\ UNCHANGED mu
    /\ LockFrame

\* sess.server.CommandsMu.RLock(); defer sess.server.CommandsMu.RUnlock()
LockRLock(i) ==
    /\ gor.s[i].pc = "rlock"
    /\ ~mu.writer /\ ~mu.pending
    /\ mu' = RLock(mu)
    /\ gor' = [gor EXCEPT !.s[i].pc = "lookup", !.s[i].holds = @ + 1]
    /\ LockFrame

\* goroutine g back in Serve after receiveLine left the session r: if
\* sess.closed { break }, then Serve returns and its deferred Close runs
LockBackInServe(g, r) ==
    [g EXCEPT !.pc = IF r.closed THEN "done" ELSE "read",
              !.sess = IF r.closed THEN Close(r) ELSE r,
              !.line = NoLine]

\* the lookup and the checks; a rejected line is answered and receiveLine
\* returns, which runs the deferred RUnlock; else Execute is entered
LockLookup(i) ==
    /\ gor.s[i].pc = "lookup"
    /\ \E ch \in Choices :
         LET r == receiveLine(LockSession(i), gor.s[i].line, ch)
         IN  IF ~r.executed
             THEN /\ mu' = RUnlock(mu)
                  /\ gor' = [gor EXCEPT !.s[i] = [LockBackInServe(@, r) EXCEPT !.holds = @ - 1]]
             ELSE /\ mu' = mu
                  /\ gor' = [gor EXCEPT !.s[i].pc = "exec"]
    /\ LockFrame

\* Execute returned; sess.preCommand = cmdGiven; the deferred RUnlock
LockHandlerReturns(i) ==
    /\ gor.s[i].pc = "exec"
    /\ \E ch \in Choices :
         LET r == receiveLine(LockSession(i), gor.s[i].line, ch)
         IN  /\ ~r.panicked
             /\ gor' = [gor EXCEPT !.s[i] = [LockBackInServe(@, r) EXCEPT !.holds = @ - 1]]
    /\ mu' = RUnlock(mu)
    /\ LockFrame

\* as LockHandlerPanics, but the panic skips the RUnlock
LockHandlerPanicsMutKeepsLock(i) ==
    /\ gor.s[i].pc = "exec"
    /\ \E ch \in Choices :
         LET r == receiveLine(LockSession(i), gor.s[i].line, ch)
         IN  /\ r.panicked
             /\ gor' = [gor EXCEPT !.s[i] = LockBackInServe(@, r)]
    /\ UNCHANGED mu
    /\ LockFrame

\* Execute panicked: the deferred RUnlock runs, then the deferred recover
LockHandlerPanics(i) ==
    /\ gor.s[i].pc = "exec"
    /\ \E ch \in Choices :
         LET r == receiveLine(LockSession(i), gor.s[i].line, ch)
         IN  /\ r.panicked
             /\ gor' = [gor EXCEPT !.s[i] = [LockBackInServe(@, r) EXCEPT !.holds = @ - 1]]
    /\ mu' = RUnlock(mu)
    /\ LockFrame

\* the writer calls CommandsMu.Lock(): from now on RLock waits
WriterLock ==
    /\ gor.w.pc = "idle"
    /\ gor.w.swaps < MaxSwaps
    /\ mu' = [mu EXCEPT !.pending = TRUE]
    /\ gor' = [gor EXCEPT !.w.pc = "waiting"]
    /\ LockFrame

\* Lock returns: no reader holds the lock
WriterAcquire ==
    /\ gor.w.pc = "waiting"
    /\ mu.readers = 0 /\ ~mu.writer
    /\ mu' = [mu EXCEPT !.pending = FALSE, !.writer = TRUE]
    /\ gor' = [gor EXCEPT !.w.pc = "holding"]
    /\ LockFrame

\* the writer replaces a handler and calls CommandsMu.Unlock()
WriterSwap ==
    /\ gor.w.pc = "holding"
    /\ mu' = [mu EXCEPT !.writer = FALSE]
    /\ gor' = [gor EXCEPT !.w.pc = "idle", !.w.swaps = @ + 1]
    /\ LockFrame

NextLock ==
    \/ \E i \in LockSessions : LockServeStart(i)
    \/ \E i \in LockSessions : LockReadLine(i)
    \/ \E i \in LockSessions : LockReadError(i)
    \/ \E i \in LockSessions : LockRLock(i)
    \/ \E i \in LockSessions : LockLookup(i)
    \/ \E i \in LockSessions : LockHandlerReturns(i)
    \/ \E i \in LockSessions : LockHandlerPanics(i)
    \/ WriterLock
    \/ WriterAcquire
    \/ WriterSwap

SpecLock == InitLock /\ [][NextLock]_vars

(***************************************************************************)
(* SpecLockFair: Lock returns when it can.  Nothing is assumed of the      *)
(* clients, of the handlers (one that executes may never return) or of the *)
(* writer's requests.                                                      *)
(***************************************************************************)
SpecLockFair ==
    /\ SpecLock
    /\ WF_vars(WriterAcquire)

\* session i is between receiveLine's RLock and its return
InsideReceiveLine(i) == gor.s[i].pc \in {"lookup", "exec"}

\* C31: receiveLine releases the read lock of the registry on every way out
\* (unknown command, 553, 534, 530, handler returned, handler panicked): a
\* session waiting for the next line holds no read lock, the lock counts the
\* sessions inside receiveLine, and a writer that has requested the write
\* lock gets it once no session is inside receiveLine any more, that is once
\* the handlers executing have returned.
C31_LockReleased ==
    /\ [](\A i \in LockSessions :
             /\ gor.s[i].holds = (IF InsideReceiveLine(i) THEN 1 ELSE 0)
             /\ gor.s[i].pc = "read" => gor.s[i].holds = 0)
    /\ [](mu.readers = Cardinality({i \in LockSessions : gor.s[i].holds = 1}))
    /\ []((gor.w.pc = "waiting" /\ \A i \in LockSessions : ~InsideReceiveLine(i))
            => ENABLED WriterAcquire)
    /\ (gor.w.pc = "waiting" /\ \A i \in LockSessions : ~InsideReceiveLine(i))
          ~> (gor.w.pc = "holding")

\* C31 witness: the writer holds the write lock it requested while a handler
\* was executing; that handler (PASS, after USER admin) panicked, the other
\* session logged in with USER and PASS and had its next line PASV executed,
\* and both sessions wait for their next line holding nothing.
C31_Witness ==
    /\ gor.w.pc = "holding"
    /\ mu = [readers |-> 0, writer |-> TRUE, pending |-> FALSE]
    /\ gor.s["s1"].pc = "read" /\ gor.s["s1"].sess.executed /\ gor.s["s1"].sess.panicked
    /\ gor.s["s1"].sess.reqUser = AuthName
    /\ gor.s["s2"].pc = "read"
    /\ gor.s["s2"].sess.user = AuthName
    /\ gor.s["s2"].sess.preCommand = "PASV"

(***************************************************************************)
(* SpecRace: Session.Close called from another goroutine while the session *)
(* task is inside sendOutofbandData or sendOutofBandDataWriter.  No lock   *)
(* guards the session's fields, so the statements of the two goroutines    *)
(* interleave; each step is one statement.                                 *)
(*   race.fn        the transfer function the session task is in           *)
(*   race.taskPc    "enter", "write", "close", "clear", "reply", "done",   *)
(*                  "panicked" (a panic left the function)                 *)
(*   race.closePc   "idle" (Close not called), "flag", "check", "sock",    *)
(*                  "clear", "done", "panicked"                            *)
(*   race.sockCloses, race.connCloses   Close calls the sockets received   *)
(*   race.taskNil   the session task called a method on a nil dataConn     *)
(*   race.closerNil the goroutine in Close did                             *)
(* The session task enters the function holding an open data connection.   *)
(***************************************************************************)
TransferFunctions == {"sendOutofbandData", "sendOutofBandDataWriter"}

InitRace ==
    /\ SessIdle
    /\ PathIdle
    /\ SrvIdle
    /\ PasvIdle
    /\ FeatIdle
    /\ LineIdle
    /\ DrvIdle
    /\ mu = NoMutex
    /\ gor = NoGoroutines
    /\ race \in {[fn |-> f, taskPc |-> "enter", closePc |-> "idle",
                   dataConn |-> "open", closed |-> FALSE, user |-> AuthName,
                   reqUser |-> AuthName, sockCloses |-> 0, connCloses |-> 0,
                   taskNil |-> FALSE, closerNil |-> FALSE, writeFailed |-> FALSE,
                   out |-> <<>>] : f \in TransferFunctions}

RaceFrame ==
    UNCHANGED <<sessVars, pathVars, srvVars, pasvVars, featVars, lineVars, drvVars, mu, gor>>

\* sendOutofbandData: if sess.dataConn != nil
TaskCheck ==
    /\ race.fn = "sendOutofbandData"
    /\ race.taskPc = "enter"
    /\ race' = [race EXCEPT !.taskPc = IF race.dataConn # Nil THEN "write" ELSE "reply"]
    /\ RaceFrame

\* sendOutofbandData: _, _ = sess.dataConn.Write(data)
TaskWrite ==
    /\ race.fn = "sendOutofbandData"
    /\ race.taskPc = "write"
    /\ \E writeOk \in BOOLEAN :
         race' = IF race.dataConn = Nil
                 THEN [race EXCEPT !.taskNil = TRUE, !.taskPc = "panicked"]
                 ELSE [race EXCEPT !.writeFailed = ~writeOk, !.taskPc = "close"]
    /\ RaceFrame

\* sendOutofBandDataWriter: bytes, err := io.Copy(sess.dataConn, data); on a
\* nil dataConn the first Write panics, and empty data calls no Write
TaskCopy ==
    /\ race.fn = "sendOutofBandDataWriter"
    /\ race.taskPc = "enter"
    /\ \E copyOk \in BOOLEAN, empty \in BOOLEAN :
         race' = IF race.dataConn = Nil /\ ~empty
                 THEN [race EXCEPT !.taskNil = TRUE, !.taskPc = "panicked"]
                 ELSE IF copyOk
                 THEN [race EXCEPT !.taskPc = "reply"]
                 ELSE [race EXCEPT !.writeFailed = TRUE, !.taskPc = "close"]
    /\ RaceFrame

\* sess.writeMessage(226, message)
TaskReply ==
    /\ race.taskPc = "reply"
    /\ race' = [race EXCEPT !.out = Append(@, "226 Closing data connection"),
                            !.taskPc = IF race.fn = "sendOutofbandData"
                                       THEN "done" ELSE "close"]
    /\ RaceFrame

\* sess.dataConn.Close()
TaskSockClose ==
    /\ race.taskPc = "close"
    /\ race' = IF race.dataConn = Nil
               THEN [race EXCEPT !.taskNil = TRUE, !.taskPc = "panicked"]
               ELSE [race EXCEPT !.sockCloses = @ + 1, !.taskPc = "clear"]
    /\ RaceFrame

\* sess.dataConn = nil
TaskClear ==
    /\ race.taskPc = "clear"
    /\ race' = [race EXCEPT !.dataConn = Nil,
                            !.taskPc = IF race.fn = "sendOutofbandData"
                                       THEN "reply" ELSE "done"]
    /\ RaceFrame

\* another goroutine calls Close: sess.Conn.Close()
CloseConn ==
    /\ race.closePc = "idle"
    /\ race' = [race EXCEPT !.connCloses = @ + 1, !.closePc = "flag"]
    /\ RaceFrame

\* Close: sess.closed = true; sess.reqUser = ""; sess.user = ""
CloseFlag ==
    /\ race.closePc = "flag"
    /\ race' = [race EXCEPT !.closed = TRUE, !.reqUser = "", !.user = "",
                            !.closePc = "check"]
    /\ RaceFrame

\* Close: if sess.dataConn != nil
CloseCheck ==
    /\ race.closePc = "check"
    /\ race' = [race EXCEPT !.closePc = IF race.dataConn # Nil THEN "sock" ELSE "done"]
    /\ RaceFrame

\* Close: sess.dataConn.Close()
CloseSock ==
    /\ race.closePc = "sock"
    /\ race' = IF race.dataConn = Nil
               THEN [race EXCEPT !.closerNil = TRUE, !.closePc = "panicked"]
               ELSE [race EXCEPT !.sockCloses = @ + 1, !.closePc = "clear"]
    /\ RaceFrame

\* Close: sess.dataConn = nil
CloseClear ==
    /\ race.closePc = "clear"
    /\ race' = [race EXCEPT !.dataConn = Nil, !.closePc = "done"]
    /\ RaceFrame

NextRace ==
    \/ TaskCheck
    \/ TaskWrite
    \/ TaskCopy
    \/ TaskReply
    \/ TaskSockClose
    \/ TaskClear
    \/ CloseConn
    \/ CloseFlag
    \/ CloseCheck
    \/ CloseSock
    \/ CloseClear

SpecRace == InitRace /\ [][NextRace]_vars

\* C32: when Close is called from another goroutine while the session task is
\* inside a transfer function, under every interleaving the session task
\* never calls a method on a nil data connection, the data connection is
\* closed at most once, and once both have finished dataConn is nil and
\* closed is true.
C32_CloseRace ==
    /\ ~race.taskNil
    /\ race.sockCloses <= 1
    /\ (race.taskPc \in {"done", "panicked"} /\ race.closePc \in {"done", "panicked"})
          => (race.dataConn = Nil /\ race.closed)

====
